---------------------------- MODULE Spec2Model ----------------------------
(***************************************************************************)
(* chat-excel client: the streaming session engine.                        *)
(*                                                                         *)
(*   - sendChatMessageStream (src/src/services/api.ts): the reader loop    *)
(*     that turns the bytes of the response body into onChunk / onDone /   *)
(*     onError calls;                                                      *)
(*   - SessionPage (src/src/pages/SessionPage.tsx, first component of the  *)
(*     file) and GeneratePage (src/unnamed/part_002): the two views that   *)
(*     own a transcript (messages) and drive one request/stream cycle per  *)
(*     turn.                                                               *)
(*                                                                         *)
(* Texts that the source writes in Chinese are written here in English     *)
(* (the module is ASCII); each such string names its source line.          *)
(***************************************************************************)
EXTENDS Naturals, Sequences, FiniteSets

(***************************************************************************)
(* Bounds of the model.                                                    *)
(***************************************************************************)
\* frame lines the backend writes to the response bodies of one run
MaxLines == 3
\* frame lines the harness of the decoder writes to one response body
MaxDecLines == 4
\* complete lines that may sit unread in the response body of the harness
MaxInFlight == 2
\* complete lines that may sit unread in the response body of a view
MaxViewInFlight == 1
\* sheet-selection actions of one run
MaxSheetChanges == 1
\* turns that run to their end in one run
MaxTurns == 1
\* the largest value Date.now() returns in a run
MaxClock == 1

\* the turns the list alone is given, the events of one turn, and the calls
\* of exportAllCharts
MaxListTurns == 1
MaxListEvents == 3
MaxExportCalls == 2

\* the files of a file-selection list given to the token builders alone
MaxTokenFiles == 3
MaxFetches == 2
MaxSessionRequests == 3
MaxConsoleErrors == 1
MaxHomeFiles == 4

(***************************************************************************)
(* Text.  A text is a sequence of pieces; a piece is a run of ASCII        *)
(* characters written as a string, or one non-ASCII character: "U+00E9"    *)
(* (e-acute) or "U+FFFD" (the replacement character).  Bytes are written   *)
(* the same way, with "0xC3" and "0xA9" for the two bytes of U+00E9.  The  *)
(* response body is cut into chunks between pieces, so the pieces of a     *)
(* line fix where the model cuts it: inside or after the prefix, inside a  *)
(* key, inside a value, inside a character, before and after the newline.  *)
(***************************************************************************)
NL == "\n"

\* the string a text spells
RECURSIVE Join(_)
Join(t) == IF t = << >> THEN "" ELSE Head(t) \o Join(Tail(t))

\* the prefix of a frame line, api.ts 348
Prefix == "data: "

\* The frame lines a response body is made of (without the newline).  The
\* lines of the decoder harness are cut finely; the lines a view receives
\* are cut after the prefix.
LineText(l) ==
  CASE l = "chunkHi"    -> << "da", "ta:", " ", "{\"type\":\"ch", "unk\",\"con",
                              "tent\":\"h", "i\"}" >>
    [] l = "chunkE9"    -> << "da", "ta:", " ", "{\"type\":\"chunk\",\"content\":\"",
                              "U+00E9", "\"}" >>
    [] l = "done"       -> << "da", "ta:", " ", "{\"type\":", "\"done\"}" >>
    [] l = "ping"       -> << "da", "ta:", " ", "{\"type\":\"ping\"}" >>
    [] l = "notJson"    -> << "da", "ta:", " ", "not-", "json" >>
    [] l = "chunkHere"  -> << "data: ", "{\"type\":\"chunk\",\"content\":\"Here\"}" >>
    [] l = "chunkItIs"  -> << "data: ", "{\"type\":\"chunk\",\"content\":\" it is\"}" >>
    [] l = "doneTotals" -> << "data: ",
                              "{\"type\":\"done\",\"chart_config\":{\"title\":{\"text\":\"Totals\"}}}" >>
    [] l = "errorBoom"  -> << "data: ", "{\"type\":\"error\",\"message\":\"boom\"}" >>
    [] l = "chunkEmpty" -> << "data: ", "{\"type\":\"chunk\",\"content\":\"\"}" >>
    [] l = "chunkNoContent" -> << "data: ", "{\"type\":\"chunk\"}" >>
    [] l = "doneNull"   -> << "data: ", "{\"type\":\"done\",\"chart_config\":null}" >>
    [] l = "errorNoMessage" -> << "data: ", "{\"type\":\"error\"}" >>
    [] l = "errorEmpty" -> << "data: ", "{\"type\":\"error\",\"message\":\"\"}" >>
    [] l = "tailChunkHere" -> << "data: ", "{\"type\":\"chunk\",\"content\":\"Here\"}" >>
    [] l = "tailDoneTotals" -> << "data: ",
                              "{\"type\":\"done\",\"chart_config\":{\"title\":{\"text\":\"Totals\"}}}" >>

\* a line that is no frame: the empty line
BlankLine == << >>

\* The backend's UTF-8 encoding of a text (the response is UTF-8 text):
\* U+00E9 becomes its two bytes, ASCII its own bytes.
RECURSIVE Utf8Encode(_)
Utf8Encode(text) ==
  IF text = << >> THEN << >>
  ELSE (IF Head(text) = "U+00E9" THEN << "0xC3", "0xA9" >> ELSE << Head(text) >>)
       \o Utf8Encode(Tail(text))

\* the frames a backend may end the body with, without the newline
TailLines == {"tailChunkHere", "tailDoneTotals"}

LineBytes(l) ==
  Utf8Encode(IF l = "blank" THEN BlankLine ELSE LineText(l))
    \o (IF l \in TailLines THEN << >> ELSE << NL >>)

(***************************************************************************)
(* sendChatMessageStream, the reader loop.                                 *)
(***************************************************************************)
\* TextDecoder.decode(value, {stream: stream}) on held \o value: a complete
\* sequence (0xC3 0xA9) becomes its character and a byte that is no sequence
\* becomes U+FFFD; an incomplete sequence at the end is held for the next
\* call when stream is set and becomes U+FFFD when not.
TextDecode(bytes, stream) ==
  LET n        == Len(bytes)
      lead(i)  == bytes[i] = "0xC3"
      cont(i)  == bytes[i] = "0xA9"
      tail(i)  == cont(i) /\ i > 1 /\ lead(i - 1)
      keep     == stream /\ n > 0 /\ lead(n)
      char(i)  == IF tail(i) \/ (i = n /\ keep) THEN "<none>"
                  ELSE IF lead(i) THEN (IF i < n /\ cont(i + 1) THEN "U+00E9"
                                        ELSE "U+FFFD")
                  ELSE IF cont(i) THEN "U+FFFD"
                  ELSE bytes[i]
  IN  [text |-> SelectSeq([i \in 1..n |-> char(i)], LAMBDA c : c # "<none>"),
       held |-> IF keep THEN << bytes[n] >> ELSE << >>]

\* decoder.decode(value): without the stream option nothing is held
decode_NotStreaming(held, value) == TextDecode(held \o value, FALSE)

\* decoder.decode(value, { stream: true })
decode(held, value) == TextDecode(held \o value, TRUE)

\* String.prototype.split("\n"): the texts between the newlines
split(s) ==
  LET nl    == {i \in 1..Len(s) : s[i] = NL}
      at(k) == IF k = 0 THEN 0
               ELSE IF k = Cardinality(nl) + 1 THEN Len(s) + 1
               ELSE CHOOSE i \in nl : Cardinality({j \in nl : j < i}) = k - 1
  IN  [k \in 1..(Cardinality(nl) + 1) |-> SubSeq(s, at(k - 1) + 1, at(k) - 1)]

\* line.startsWith(p): some pieces at the front of line spell p
startsWith(line, p) == \E k \in 0..Len(line) : Join(SubSeq(line, 1, k)) = p

\* line.slice(n) of a line that starts with n characters' worth of pieces
slice(line, n) ==
  LET k == CHOOSE j \in 0..Len(line) : Len(Join(SubSeq(line, 1, j))) = n
  IN  SubSeq(line, k + 1, Len(line))

IsSpace(c) == c \in {" ", "\t", "\r", NL}

\* String.prototype.trim()
trim(s) ==
  LET ink == {i \in 1..Len(s) : ~IsSpace(s[i])}
  IN  IF ink = {} THEN << >>
      ELSE SubSeq(s, CHOOSE i \in ink : \A j \in ink : i <= j,
                     CHOOSE i \in ink : \A j \in ink : j <= i)

\* an object-valued field or property that is missing, null or undefined
Absent == [absent |-> TRUE]

\* a string-valued field or variable that is missing, null or undefined
Undefined == "<undefined>"

\* the chart_config of the doneTotals frame
CfgTotals == [title |-> [text |-> "Totals"]]

\* JSON.parse, on the texts a response body of the model can hold: a frame
\* object parses to its fields; any other text of the model (a fragment of a
\* frame, not-json) is rejected with a SyntaxError (ok = FALSE).
JsonParse(jsonStr) ==
  LET t == Join(trim(jsonStr))
      obj(ty, c, cc, m) ==
        [ok |-> TRUE, type |-> ty, content |-> c, chart_config |-> cc,
         message |-> m]
  IN  CASE t = "{\"type\":\"chunk\",\"content\":\"hi\"}"
             -> obj("chunk", "hi", Absent, Undefined)
        [] t = "{\"type\":\"chunk\",\"content\":\"U+00E9\"}"
             -> obj("chunk", "U+00E9", Absent, Undefined)
        [] t = "{\"type\":\"chunk\",\"content\":\"U+FFFDU+FFFD\"}"
             -> obj("chunk", "U+FFFDU+FFFD", Absent, Undefined)
        [] t = "{\"type\":\"chunk\",\"content\":\"Here\"}"
             -> obj("chunk", "Here", Absent, Undefined)
        [] t = "{\"type\":\"chunk\",\"content\":\" it is\"}"
             -> obj("chunk", " it is", Absent, Undefined)
        [] t = "{\"type\":\"done\",\"chart_config\":{\"title\":{\"text\":\"Totals\"}}}"
             -> obj("done", Undefined, CfgTotals, Undefined)
        [] t = "{\"type\":\"done\"}"
             -> obj("done", Undefined, Absent, Undefined)
        [] t = "{\"type\":\"error\",\"message\":\"boom\"}"
             -> obj("error", Undefined, Absent, "boom")
        [] t = "{\"type\":\"chunk\",\"content\":\"\"}"
             -> obj("chunk", "", Absent, Undefined)
        [] t = "{\"type\":\"chunk\"}"
             -> obj("chunk", Undefined, Absent, Undefined)
        [] t = "{\"type\":\"done\",\"chart_config\":null}"
             -> obj("done", Undefined, Absent, Undefined)
        [] t = "{\"type\":\"error\"}"
             -> obj("error", Undefined, Absent, Undefined)
        [] t = "{\"type\":\"error\",\"message\":\"\"}"
             -> obj("error", Undefined, Absent, "")
        [] t = "{\"type\":\"ping\"}"
             -> obj("ping", Undefined, Absent, Undefined)
        [] OTHER -> [ok |-> FALSE]

\* JavaScript truthiness of an optional string field
Truthy(v) == v # Undefined /\ v # ""

\* "unknown error", the text of src/src/services/api.ts:358
UnknownError == "unknown error"

\* ProcessLine with `else if (event.type === "done")` written as `else`
ProcessLine_AnyOtherTypeIsDone(line) ==
  IF ~startsWith(line, Prefix) THEN << >>
  ELSE LET event == JsonParse(slice(line, 6))
       IN  IF trim(slice(line, 6)) = << >> \/ ~event.ok THEN << >>
           ELSE IF event.type = "chunk" /\ Truthy(event.content)
                THEN << [type |-> "chunk", content |-> event.content] >>
           ELSE << [type |-> "done", chartConfig |-> event.chart_config] >>

\* ProcessLine without the `&& event.content` of api.ts 353
ProcessLine_EmptyChunkEmitted(line) ==
  IF ~startsWith(line, Prefix) THEN << >>
  ELSE LET event == JsonParse(slice(line, 6))
       IN  IF trim(slice(line, 6)) = << >> \/ ~event.ok THEN << >>
           ELSE IF event.type = "chunk"
                THEN << [type |-> "chunk", content |-> event.content] >>
           ELSE IF event.type = "done"
                THEN << [type |-> "done", chartConfig |-> event.chart_config] >>
           ELSE IF event.type = "error"
                THEN << [type |-> "error",
                         error |-> IF Truthy(event.message) THEN event.message
                                   ELSE UnknownError] >>
           ELSE << >>

\* The callbacks one line makes, in order (api.ts 348-364).  An event is the
\* callback and its argument.  A SyntaxError of JSON.parse is caught and
\* ignored (360-362).  Absent stands for null as for undefined, so
\* event.chart_config || null is event.chart_config.
ProcessLine(line) ==
  IF ~startsWith(line, Prefix) THEN << >>
  ELSE LET jsonStr == slice(line, 6)
       IN  IF trim(jsonStr) = << >> THEN << >>
           ELSE LET event == JsonParse(jsonStr)
                IN  IF ~event.ok THEN << >>
                    ELSE IF event.type = "chunk" /\ Truthy(event.content)
                         THEN << [type |-> "chunk", content |-> event.content] >>
                    ELSE IF event.type = "done"
                         THEN << [type |-> "done",
                                  chartConfig |-> event.chart_config] >>
                    ELSE IF event.type = "error"
                         THEN << [type |-> "error",
                                  error |-> IF Truthy(event.message)
                                            THEN event.message
                                            ELSE UnknownError] >>
                    ELSE << >>

RECURSIVE ProcessLines(_)
ProcessLines(lines) ==
  IF lines = << >> THEN << >>
  ELSE ProcessLine(Head(lines)) \o ProcessLines(Tail(lines))

\* lines.pop() || ""
pop(lines) == IF lines = << >> THEN << >> ELSE lines[Len(lines)]

\* One turn of the reader loop on a chunk `value` (api.ts 341-365): the new
\* held bytes of the TextDecoder, the new buffer, and the callbacks made.
DecodeChunk(held, buf, value) ==
  LET d     == decode(held, value)
      lines == split(buf \o d.text)
  IN  [held   |-> d.held,
       buffer |-> pop(lines),
       events |-> ProcessLines(SubSeq(lines, 1, Len(lines) - 1))]

(***************************************************************************)
(* State.                                                                  *)
(***************************************************************************)
VARIABLES
  view,           \* the page shown ("session", "generate") or the part modelled alone
  pc,             \* where the view's async function stands
  messages,       \* useState<ChatMessage[]>: the transcript
  loading,        \* useState: loading
  isStreaming,    \* useState: isStreaming (SessionPage)
  sessionDetail,  \* useState: sessionDetail (SessionPage)
  sessionId,      \* the sessionId prop (SessionPage), useState: sessionId (GeneratePage)
  initialPrompt,  \* the initialPrompt prop (GeneratePage)
  fileInfos,      \* useState: fileInfos
  dataSourceIds,  \* useState: dataSourceIds (SessionPage), const dataSourceIds of init (GeneratePage)
  fileIds,        \* useState: fileIds (GeneratePage)
  sheetCalls,     \* the handleSheetsChange calls that are awaiting the backend
  turnKind,       \* "init" (GeneratePage.init) or "send" (handleSend)
  assistantMsgId, \* const assistantMsgId of the running turn
  streamContent,  \* let streamContent of the running turn
  thrown,         \* the error sendChatMessageStream rejected with, if any
  requests,       \* the bodies POSTed to /api/chat/stream, in order
  wire,           \* bytes of the response body not yet read
  closed,         \* the backend has ended the response body
  held,           \* the TextDecoder's incomplete trailing bytes
  buffer,         \* let buffer (api.ts 334)
  events,         \* the callbacks made for the running stream, in order
  sent,           \* the frame lines the backend has written
  clock,          \* the last value Date.now() returned
  mounted,        \* the page component is mounted (App.tsx renders it)
  lastOp,         \* the handler or step that ran last
  chartInstancesRef, \* chartInstancesRef.current: the Map, in insertion order
  instances,      \* every echarts instance created: its entry, its dispose calls
  chartInstanceRef,  \* the mounted MessageCharts: chartInstanceRef.current of each
  timers,         \* the exports exportAllCharts has scheduled with setTimeout
  alerts,         \* the calls of alert
  localStorage,   \* localStorage: the item "chat_excel_client_id", if any
  fetches,        \* the fetch calls of the service layer, in order
  configProp,     \* the config prop of a MessageChart (the entry's chartConfig)
  option,         \* what the MessageChart passed to setOption
  files,          \* useState: files (HomePage), the pending file list
  searchQuery,    \* useState: searchQuery (HistoryPage)
  searchTimeoutRef, \* the timeout handleSearchChange has set, if pending
  sessionsInFlight, \* the getSessions calls of loadSessions awaiting a response
  sessions,       \* useState: sessions (HistoryPage), the list shown
  sessionsLoading, \* useState: sessionsLoading (HistoryPage)
  consoleErrors   \* the console.error calls of loadSessions

viewVars   == << view, messages, loading, isStreaming, sessionDetail, sessionId,
                 initialPrompt, fileInfos, dataSourceIds, fileIds, sheetCalls, clock >>
turnVars   == << pc, turnKind, assistantMsgId, streamContent, thrown, requests >>
streamVars == << wire, closed, held, buffer, events, sent >>
chartVars  == << chartInstancesRef, instances, chartInstanceRef, timers, alerts >>
clientVars == << localStorage, fetches >>
optionVars == << configProp, option >>
pageVars   == << files, searchQuery, searchTimeoutRef, sessionsInFlight, sessions,
                 sessionsLoading, consoleErrors >>
vars       == << viewVars, turnVars, streamVars, lastOp, mounted, chartVars,
                 clientVars, optionVars, pageVars >>

\* no chart has been rendered and no export requested
\* neither the home page nor the history page is shown
NoPages ==
  /\ files = << >>
  /\ searchQuery = ""
  /\ searchTimeoutRef = << >>
  /\ sessionsInFlight = << >>
  /\ sessions = << >>
  /\ sessionsLoading = FALSE
  /\ consoleErrors = 0

NoOption ==
  /\ configProp = Absent
  /\ option = Absent

NoFetches ==
  /\ localStorage = << >>
  /\ fetches = << >>

NoCharts ==
  /\ chartInstancesRef = << >>
  /\ instances = << >>
  /\ chartInstanceRef = << >>
  /\ timers = << >>
  /\ alerts = 0

(***************************************************************************)
(* Transcript entries.  ChatMessage (ChatMessageList.tsx 5-11) has id,     *)
(* role, content, chartConfig and isLoading.  isPending is not a field of  *)
(* the source: it records which statement built the entry: the assistant   *)
(* entry appended when a turn starts and the entry onChunk writes are the  *)
(* in-flight turn's entry being filled (pending); the entry onDone,        *)
(* onError or a catch block writes ends the turn (not pending).            *)
(***************************************************************************)
Msg(id, role, content, chartConfig, isLoading, isPending) ==
  [id |-> id, role |-> role, content |-> content, chartConfig |-> chartConfig,
   isLoading |-> isLoading, isPending |-> isPending]

\* a message literal without chartConfig and isLoading
Plain(id, role, content) == Msg(id, role, content, Absent, FALSE, FALSE)

\* prev.slice(0, -1)
butLast(prev) == SubSeq(prev, 1, Len(prev) - 1)

\* `generation failed: `, the prefix of SessionPage.tsx 249 and 260 and of
\* part_002 246 and 257
SendFailedPrefix == "generation failed: "

\* `error: `, the prefix of part_002 171 and 183
InitFailedPrefix == "error: "

\* a setter that applies the update whether or not the component is mounted
setState_AppliedAfterUnmount(cur, next) == next

\* the setter useState returns (SessionPage.tsx 36-43, part_002 38-44): React
\* drops the update of a component that is no longer mounted
setState(cur, next) == IF mounted THEN next ELSE cur

\* the flag the cleanup of the mount effect sets (SessionPage.tsx 48 and
\* 134-136, part_002 52 and 193-195)
cancelled == ~mounted

\* the prefix the running turn's onError and catch use
FailedPrefix == IF turnKind = "init" THEN InitFailedPrefix ELSE SendFailedPrefix

\* onChunk (SessionPage.tsx 223-229, part_002 145-152 and 220-226)
onChunk(st, chunk) ==
  IF turnKind = "init" /\ cancelled THEN st
  ELSE LET sc == st.streamContent \o chunk
       IN  [messages |-> setState(st.messages,
                           butLast(st.messages)
                             \o << Msg(assistantMsgId, "assistant", sc, Absent,
                                       FALSE, TRUE) >>),
            streamContent |-> sc]

\* onDone (SessionPage.tsx 231-241, part_002 154-165 and 228-238);
\* chartConfig || undefined is chartConfig, Absent being null and undefined
onDone(st, chartConfig) ==
  IF turnKind = "init" /\ cancelled THEN st
  ELSE [messages |-> setState(st.messages,
                       butLast(st.messages)
                         \o << Msg(assistantMsgId, "assistant", st.streamContent,
                                   chartConfig, FALSE, FALSE) >>),
        streamContent |-> st.streamContent]

\* onError (SessionPage.tsx 243-252, part_002 167-173 and 240-249)
onError(st, error) ==
  IF turnKind = "init" /\ cancelled THEN st
  ELSE [messages |-> setState(st.messages,
                       butLast(st.messages)
                         \o << Plain(assistantMsgId, "assistant",
                                     FailedPrefix \o error) >>),
        streamContent |-> st.streamContent]

\* the callback of one event
Callback(st, e) ==
  CASE e.type = "chunk" -> onChunk(st, e.content)
    [] e.type = "done"  -> onDone(st, e.chartConfig)
    [] e.type = "error" -> onError(st, e.error)

\* the callbacks of one read, made in the order the lines were decoded; the
\* harness passes callbacks that only record the call
RECURSIVE Callbacks(_, _)
Callbacks(st, es) ==
  IF es = << >> \/ view \in {"harness", "frames"} THEN st
  ELSE Callbacks(Callback(st, Head(es)), Tail(es))

(***************************************************************************)
(* The response body and the reader loop of sendChatMessageStream.         *)
(***************************************************************************)
\* the frame lines the decoder harness draws from
DecLines == {"chunkHi", "chunkE9", "done", "blank", "notJson", "ping"}

\* the frame lines the backend of a view draws from
ViewLines == {"chunkHere", "chunkItIs", "doneTotals", "errorBoom"}

Lines == IF view = "harness" THEN DecLines ELSE ViewLines

LineBudget == IF view = "harness" THEN MaxDecLines ELSE MaxLines

\* complete lines of w
InFlight(w) == Cardinality({i \in 1..Len(w) : w[i] = NL})

\* the backend writes one frame line to the response body
BackendWrite(l) ==
  /\ pc = "streaming"
  /\ ~closed
  /\ Len(sent) < LineBudget
  /\ InFlight(wire) < (IF view = "harness" THEN MaxInFlight ELSE MaxViewInFlight)
  /\ wire' = wire \o LineBytes(l)
  /\ sent' = Append(sent, l)
  /\ lastOp' = "BackendWrite"
  /\ UNCHANGED << clientVars, optionVars, pageVars >>
  /\ UNCHANGED << mounted, chartVars >>
  /\ UNCHANGED << viewVars, turnVars, closed, held, buffer, events >>

\* the backend ends the response body
BackendClose ==
  /\ pc = "streaming"
  /\ ~closed
  /\ closed' = TRUE
  /\ lastOp' = "BackendClose"
  /\ UNCHANGED << clientVars, optionVars, pageVars >>
  /\ UNCHANGED << mounted, chartVars >>
  /\ UNCHANGED << viewVars, turnVars, wire, held, buffer, events, sent >>

\* reader.read() resolves with the next n bytes (api.ts 338-365)
ReaderRead(n) ==
  /\ pc = "streaming"
  /\ n \in 1..Len(wire)
  /\ LET d  == DecodeChunk(held, buffer, SubSeq(wire, 1, n))
         st == Callbacks([messages |-> messages, streamContent |-> streamContent],
                         d.events)
     IN  /\ held' = d.held
         /\ buffer' = d.buffer
         /\ events' = events \o d.events
         /\ messages' = st.messages
         /\ streamContent' = st.streamContent
  /\ wire' = SubSeq(wire, n + 1, Len(wire))
  /\ lastOp' = "ReaderRead"
  /\ UNCHANGED << clientVars, optionVars, pageVars >>
  /\ UNCHANGED << mounted, chartVars >>
  /\ UNCHANGED << view, loading, isStreaming, sessionDetail, sessionId,
                  initialPrompt, fileInfos, dataSourceIds, fileIds, sheetCalls,
                  clock, pc, turnKind,
                  assistantMsgId, thrown, requests, closed, sent >>

\* a read loop that parses what is left in the buffer when the body ends
ReaderDone_FlushesBuffer ==
  /\ pc = "streaming"
  /\ wire = << >>
  /\ closed
  /\ pc' = "settled"
  /\ thrown' = Undefined
  /\ events' = events \o ProcessLine(buffer)
  /\ lastOp' = "ReaderDone"
  /\ UNCHANGED << clientVars, optionVars, pageVars >>
  /\ UNCHANGED << viewVars, turnKind, assistantMsgId, streamContent, requests,
                  wire, closed, held, buffer, sent, mounted, chartVars >>

\* reader.read() resolves with done: break, releaseLock, the promise resolves
\* (api.ts 339, 367-369)
ReaderDone ==
  /\ pc = "streaming"
  /\ wire = << >>
  /\ closed
  /\ pc' = "settled"
  /\ thrown' = Undefined
  /\ lastOp' = "ReaderDone"
  /\ UNCHANGED << clientVars, optionVars, pageVars >>
  /\ UNCHANGED << mounted, chartVars >>
  /\ UNCHANGED << viewVars, turnKind, assistantMsgId, streamContent, requests,
                  streamVars >>

(***************************************************************************)
(* The decoder alone: sendChatMessageStream with callbacks that record     *)
(* their calls, on a response body of up to MaxDecLines lines of DecLines  *)
(* cut into chunks in every way.                                           *)
(***************************************************************************)
InitDecoder ==
  /\ view = "harness"
  /\ pc = "streaming"
  /\ messages = << >>
  /\ loading = FALSE
  /\ isStreaming = FALSE
  /\ sessionDetail = Absent
  /\ sessionId = Undefined
  /\ initialPrompt = ""
  /\ fileInfos = << >>
  /\ dataSourceIds = << >>
  /\ fileIds = << >>
  /\ sheetCalls = << >>
  /\ turnKind = "send"
  /\ assistantMsgId = << >>
  /\ streamContent = ""
  /\ thrown = Undefined
  /\ requests = << >>
  /\ wire = << >>
  /\ closed = FALSE
  /\ held = << >>
  /\ buffer = << >>
  /\ events = << >>
  /\ sent = << >>
  /\ clock = 0
  /\ mounted = TRUE
  /\ NoCharts
  /\ NoFetches
  /\ NoOption
  /\ NoPages
  /\ lastOp = "fetch"

NextDecoder ==
  \/ \E l \in DecLines : BackendWrite(l)
  \/ BackendClose
  \/ \E n \in 1..Len(wire) : ReaderRead(n)
  \/ ReaderDone

SpecDecoder == InitDecoder /\ [][NextDecoder]_vars

(***************************************************************************)
(* The decoder on every kind of frame object: sendChatMessageStream with   *)
(* callbacks that record their calls, on a response body of up to MaxLines *)
(* frames of FrameLines, the last of which may lack its newline.           *)
(***************************************************************************)
FrameLines == {"chunkHere", "chunkEmpty", "chunkNoContent", "doneTotals", "done",
               "doneNull", "errorBoom", "errorNoMessage", "errorEmpty"}

InitFrames ==
  /\ view = "frames"
  /\ pc = "streaming"
  /\ messages = << >>
  /\ loading = FALSE
  /\ isStreaming = FALSE
  /\ sessionDetail = Absent
  /\ sessionId = Undefined
  /\ initialPrompt = ""
  /\ fileInfos = << >>
  /\ dataSourceIds = << >>
  /\ fileIds = << >>
  /\ sheetCalls = << >>
  /\ turnKind = "send"
  /\ assistantMsgId = << >>
  /\ streamContent = ""
  /\ thrown = Undefined
  /\ requests = << >>
  /\ wire = << >>
  /\ closed = FALSE
  /\ held = << >>
  /\ buffer = << >>
  /\ events = << >>
  /\ sent = << >>
  /\ clock = 0
  /\ mounted = TRUE
  /\ NoCharts
  /\ NoFetches
  /\ NoOption
  /\ NoPages
  /\ lastOp = "fetch"

\* the backend writes a last frame without its newline and ends the body
BackendWriteLast(l) ==
  /\ view = "frames"
  /\ pc = "streaming"
  /\ ~closed
  /\ l \in TailLines
  /\ wire' = wire \o LineBytes(l)
  /\ sent' = Append(sent, l)
  /\ closed' = TRUE
  /\ lastOp' = "BackendWriteLast"
  /\ UNCHANGED << clientVars, optionVars, pageVars >>
  /\ UNCHANGED << viewVars, turnVars, held, buffer, events, mounted, chartVars >>

NextFrames ==
  \/ \E l \in FrameLines : BackendWrite(l)
  \/ \E l \in TailLines : BackendWriteLast(l)
  \/ BackendClose
  \/ \E n \in 1..Len(wire) : ReaderRead(n)
  \/ ReaderDone

SpecFrames == InitFrames /\ [][NextFrames]_vars

(***************************************************************************)
(* What the views share.                                                   *)
(***************************************************************************)
\* an id built from a prefix and a number: `a-${Date.now()}`, `msg-${msg.id}`,
\* `file-info-${index}`; a literal id has no number
Id(prefix, n) == << prefix, n >>
LitId(s) == << s >>

\* the values Date.now() may return: the clock does not run backwards
Now == clock..MaxClock

ToStr(n) == IF n < 10 THEN << "0", "1", "2", "3", "4", "5", "6", "7", "8", "9" >>[n + 1]
            ELSE "10+"

\* Array.prototype.join(", ")
RECURSIVE join(_)
join(a) == IF a = << >> THEN ""
           ELSE IF Len(a) = 1 THEN a[1]
           ELSE a[1] \o ", " \o join(Tail(a))

\* the tokens of one file: `${file_id}:${sheet}` per selected sheet, or file_id
RECURSIVE SheetTokens(_, _)
SheetTokens(file_id, sheets) ==
  IF sheets = << >> THEN << >>
  ELSE << file_id \o ":" \o Head(sheets) >> \o SheetTokens(file_id, Tail(sheets))

\* a builder that gives one token per file, its first selected sheet
RECURSIVE DataSourceIdsOf_FirstSheetOnly(_)
DataSourceIdsOf_FirstSheetOnly(infos) ==
  IF infos = << >> THEN << >>
  ELSE (IF Len(Head(infos).selectedSheets) > 0
        THEN << Head(infos).file_id \o ":" \o Head(infos).selectedSheets[1] >>
        ELSE << Head(infos).file_id >>)
       \o DataSourceIdsOf_FirstSheetOnly(Tail(infos))

\* SessionPage.tsx 69-79 and 150-160: the forEach that builds the token list
RECURSIVE DataSourceIdsOf(_)
DataSourceIdsOf(infos) ==
  IF infos = << >> THEN << >>
  ELSE (IF Len(Head(infos).selectedSheets) > 0
        THEN SheetTokens(Head(infos).file_id, Head(infos).selectedSheets)
        ELSE << Head(infos).file_id >>)
       \o DataSourceIdsOf(Tail(infos))

\* the two messages a turn starts with (SessionPage.tsx 203-207, part_002
\* 131-135 and 203-207): the user entry and the empty assistant entry
TurnEntries(userId, assistantId, text) ==
  << Plain(userId, "user", text),
     Msg(assistantId, "assistant", "", Absent, FALSE, TRUE) >>

\* the body of the POST to /api/chat/stream (api.ts 317-321)
Payload(session_id, message, file_ids) ==
  [session_id |-> session_id, message |-> message, file_ids |-> file_ids]

\* no promise continuation is queued: a continuation runs before any other
\* event (a network event, a user event) is handled
NoJobQueued == pc # "settled"

\* a request is outstanding or its response is being handled
Busy == pc \in {"fetching", "streaming", "settled"}

\* the turns whose request and stream cycle has ended
TurnsSettled == IF Busy /\ Len(requests) > 0 THEN Len(requests) - 1
                ELSE Len(requests)

\* the texts the user sends
Texts == {"plot totals"}

\* the messages of the errors fetch rejects or sendChatMessageStream throws
\* before the first read: a network failure, a non-success status without
\* detail (api.ts 325), a response without body (api.ts 330)
FetchErrors == {"Failed to fetch", "send message failed",
                "cannot read response stream"}

\* the message of the error reader.read() rejects with
ReadError == "network error"

\* fetch resolves with a success status and a readable body (api.ts 317-334)
FetchResponse ==
  /\ pc = "fetching"
  /\ pc' = "streaming"
  /\ wire' = << >>
  /\ closed' = FALSE
  /\ held' = << >>
  /\ buffer' = << >>
  /\ events' = << >>
  /\ lastOp' = "FetchResponse"
  /\ UNCHANGED << clientVars, optionVars, pageVars >>
  /\ UNCHANGED << mounted, chartVars >>
  /\ UNCHANGED << viewVars, turnKind, assistantMsgId, streamContent, thrown,
                  requests, sent >>

\* fetch rejects, the status is not ok, or the response has no body: the
\* promise of sendChatMessageStream rejects (api.ts 317-331)
FetchFailed(err) ==
  /\ pc = "fetching"
  /\ pc' = "settled"
  /\ thrown' = err
  /\ lastOp' = "FetchFailed"
  /\ UNCHANGED << clientVars, optionVars, pageVars >>
  /\ UNCHANGED << mounted, chartVars >>
  /\ UNCHANGED << viewVars, turnKind, assistantMsgId, streamContent, requests,
                  streamVars >>

\* reader.read() rejects: the finally block releases the lock and the promise
\* of sendChatMessageStream rejects (api.ts 338, 367-369)
ReaderFailed ==
  /\ pc = "streaming"
  /\ pc' = "settled"
  /\ thrown' = ReadError
  /\ lastOp' = "ReaderFailed"
  /\ UNCHANGED << clientVars, optionVars, pageVars >>
  /\ UNCHANGED << mounted, chartVars >>
  /\ UNCHANGED << viewVars, turnKind, assistantMsgId, streamContent, requests,
                  streamVars >>

(***************************************************************************)
(* SessionPage (src/src/pages/SessionPage.tsx 32-351).                     *)
(***************************************************************************)
\* the session details the backend may return
Details ==
  { [file_ids |-> << "f1" >>, file_metadata |-> << >>, messages |-> << >>],
    [file_ids |-> << "f1:S1" >>,
     file_metadata |-> << [file_id |-> "f1", filename |-> "a.xlsx",
                           sheet_names |-> << "S1", "S2" >>,
                           selected_sheets |-> << "S1" >>] >>,
     messages |-> << [id |-> 1, role |-> "user", content |-> "q0",
                      chart_config |-> Absent],
                     [id |-> 2, role |-> "assistant", content |-> "a0",
                      chart_config |-> CfgTotals] >>] }

\* SessionPage.tsx 60-65
RestoredFileInfos(file_metadata) ==
  [i \in 1..Len(file_metadata) |->
     [file_id        |-> file_metadata[i].file_id,
      filename       |-> file_metadata[i].filename,
      sheet_names    |-> file_metadata[i].sheet_names,
      selectedSheets |-> file_metadata[i].selected_sheets]]

\* SessionPage.tsx 83-108: "uploaded N files" and one message per file
FileMessages(file_metadata) ==
  IF Len(file_metadata) = 0 THEN << >>
  ELSE << Plain(LitId("file-count"), "assistant",
                "uploaded " \o ToStr(Len(file_metadata)) \o " files") >>
       \o [i \in 1..Len(file_metadata) |->
             LET fm == file_metadata[i]
             IN  Plain(Id("file-info-", i - 1), "assistant",
                       "file " \o fm.filename \o " loaded"
                       \o (IF Len(fm.sheet_names) > 1
                           THEN " sheets: " \o join(fm.sheet_names)
                                \o (IF Len(fm.selected_sheets) > 0
                                    THEN " selected: " \o join(fm.selected_sheets)
                                    ELSE "")
                           ELSE ""))]

\* SessionPage.tsx 111-116
ChatMessages(msgs) ==
  [i \in 1..Len(msgs) |->
     Msg(Id("msg-", msgs[i].id), msgs[i].role, msgs[i].content,
         msgs[i].chart_config, FALSE, FALSE)]

\* the component is mounted and the effect has called loadSession (36-51)
InitSession ==
  /\ view = "session"
  /\ pc = "loading"
  /\ messages = << >>
  /\ loading = TRUE
  /\ isStreaming = FALSE
  /\ sessionDetail = Absent
  /\ sessionId = "s1"
  /\ initialPrompt = ""
  /\ fileInfos = << >>
  /\ dataSourceIds = << >>
  /\ fileIds = << >>
  /\ sheetCalls = << >>
  /\ turnKind = "send"
  /\ assistantMsgId = << >>
  /\ streamContent = ""
  /\ thrown = Undefined
  /\ requests = << >>
  /\ wire = << >>
  /\ closed = FALSE
  /\ held = << >>
  /\ buffer = << >>
  /\ events = << >>
  /\ sent = << >>
  /\ clock = 0
  /\ mounted = TRUE
  /\ NoCharts
  /\ NoFetches
  /\ NoOption
  /\ NoPages
  /\ lastOp = "mount"

\* getSessionDetail resolves (SessionPage.tsx 53-119, 128-130)
LoadSessionDone(detail) ==
  /\ view = "session"
  /\ pc = "loading"
  /\ IF cancelled
     THEN UNCHANGED << sessionDetail, fileInfos, dataSourceIds, messages, loading >>
     ELSE /\ sessionDetail' = detail
          /\ IF Len(detail.file_metadata) > 0
             THEN /\ fileInfos' = RestoredFileInfos(detail.file_metadata)
                  /\ dataSourceIds' =
                       DataSourceIdsOf(RestoredFileInfos(detail.file_metadata))
             ELSE UNCHANGED << fileInfos, dataSourceIds >>
          /\ messages' = FileMessages(detail.file_metadata)
                           \o ChatMessages(detail.messages)
          /\ loading' = FALSE
  /\ pc' = "idle"
  /\ lastOp' = "loadSession"
  /\ UNCHANGED << clientVars, optionVars, pageVars >>
  /\ UNCHANGED << mounted, chartVars >>
  /\ UNCHANGED << view, isStreaming, sessionId, initialPrompt, fileIds, sheetCalls,
                  clock, turnKind, assistantMsgId, streamContent, thrown, requests,
                  streamVars >>

\* getSessionDetail rejects (SessionPage.tsx 120-130)
LoadSessionFailed ==
  /\ view = "session"
  /\ pc = "loading"
  /\ messages' = setState(messages,
                          << Plain(LitId("error"), "assistant",
                                   "load session failed: " \o "not found") >>)
  /\ loading' = IF cancelled THEN loading ELSE FALSE
  /\ pc' = "idle"
  /\ lastOp' = "loadSession:failed"
  /\ UNCHANGED << clientVars, optionVars, pageVars >>
  /\ UNCHANGED << mounted, chartVars >>
  /\ UNCHANGED << view, isStreaming, sessionDetail, sessionId, initialPrompt,
                  fileInfos, dataSourceIds, fileIds, sheetCalls, clock, turnKind,
                  assistantMsgId, streamContent, thrown, requests, streamVars >>

\* the input surface: <ChatInput disabled={...}> (SessionPage.tsx 347,
\* part_002 405)
InputDisabled == IF view = "session" THEN loading \/ isStreaming ELSE loading

\* the guard of SessionPage.handleSend without its isStreaming disjunct
SessionSendRejected_IsStreamingIgnored == sessionDetail = Absent \/ loading

\* the guard of handleSend, SessionPage.tsx 200
SessionSendRejected == sessionDetail = Absent \/ loading \/ isStreaming

\* the guard of GeneratePage.handleSend without its sessionId disjunct
GenerateSendRejected_SessionIdIgnored == Len(fileIds) = 0 \/ loading

\* the guard of GeneratePage.handleSend without its loading disjunct
GenerateSendRejected_LoadingIgnored == Len(fileIds) = 0 \/ sessionId = Undefined

\* the guard of handleSend, part_002 200
GenerateSendRejected == Len(fileIds) = 0 \/ sessionId = Undefined \/ loading

SendRejected == IF view = "session" THEN SessionSendRejected ELSE GenerateSendRejected

\* fileIdsToUse that prefers the file_ids stored with the session
FileIdsToUse_StoredFirst ==
  IF view = "session"
  THEN (IF Len(sessionDetail.file_ids) > 0 THEN sessionDetail.file_ids
        ELSE dataSourceIds)
  ELSE fileIds

\* the file_ids of a turn's request (SessionPage.tsx 213, part_002 217)
FileIdsToUse ==
  IF view = "session"
  THEN (IF Len(dataSourceIds) > 0 THEN dataSourceIds ELSE sessionDetail.file_ids)
  ELSE fileIds

\* handleSend(text) of either view up to its await (SessionPage.tsx 199-221,
\* part_002 199-218); a rejected call returns at once; the two Date.now()
\* calls of an accepted one fall in the same millisecond
HandleSend(text) ==
  /\ view \in {"session", "generate"}
  /\ mounted
  /\ NoJobQueued
  /\ IF SendRejected
     THEN /\ lastOp' = "handleSend:rejected"
          /\ UNCHANGED << clientVars, optionVars, pageVars >>
          /\ UNCHANGED << mounted, chartVars >>
          /\ UNCHANGED << viewVars, turnVars, streamVars >>
     ELSE /\ TurnsSettled < MaxTurns
          /\ \E t \in Now :
               /\ assistantMsgId' = Id("a-", t)
               /\ messages' = messages \o TurnEntries(Id("u-", t), Id("a-", t), text)
               /\ clock' = t
          /\ IF view = "session"
             THEN isStreaming' = TRUE /\ UNCHANGED loading
             ELSE loading' = TRUE /\ UNCHANGED isStreaming
          /\ streamContent' = ""
          /\ turnKind' = "send"
          /\ thrown' = Undefined
          /\ requests' = Append(requests, Payload(sessionId, text, FileIdsToUse))
          /\ pc' = "fetching"
          /\ lastOp' = "handleSend"
          /\ UNCHANGED << clientVars, optionVars, pageVars >>
          /\ UNCHANGED << mounted, chartVars >>
          /\ UNCHANGED << view, sessionDetail, sessionId, initialPrompt, fileInfos,
                          dataSourceIds, fileIds, sheetCalls, streamVars >>

\* handleSend's continuation without its finally block
HandleSendSettle_NoFinally ==
  /\ pc = "settled"
  /\ turnKind = "send"
  /\ view \in {"session", "generate"}
  /\ messages' = IF thrown # Undefined
                 THEN setState(messages,
                        butLast(messages)
                          \o << Plain(assistantMsgId, "assistant",
                                      SendFailedPrefix \o thrown) >>)
                 ELSE messages
  /\ pc' = "idle"
  /\ lastOp' = "handleSend:settle"
  /\ UNCHANGED << clientVars, optionVars, pageVars >>
  /\ UNCHANGED << mounted, chartVars >>
  /\ UNCHANGED << view, loading, isStreaming, sessionDetail, sessionId,
                  initialPrompt, fileInfos, dataSourceIds, fileIds, sheetCalls,
                  clock, turnKind, assistantMsgId, streamContent, thrown,
                  requests, streamVars >>

\* the rest of handleSend once sendChatMessageStream has settled: the catch
\* block on a rejection, then the finally block (SessionPage.tsx 254-265,
\* part_002 251-262)
HandleSendSettle ==
  /\ pc = "settled"
  /\ turnKind = "send"
  /\ view \in {"session", "generate"}
  /\ messages' = IF thrown # Undefined
                 THEN setState(messages,
                        butLast(messages)
                          \o << Plain(assistantMsgId, "assistant",
                                      SendFailedPrefix \o thrown) >>)
                 ELSE messages
  /\ IF view = "session"
     THEN isStreaming' = setState(isStreaming, FALSE) /\ UNCHANGED loading
     ELSE loading' = setState(loading, FALSE) /\ UNCHANGED isStreaming
  /\ pc' = "idle"
  /\ lastOp' = "handleSend:settle"
  /\ UNCHANGED << clientVars, optionVars, pageVars >>
  /\ UNCHANGED << mounted, chartVars >>
  /\ UNCHANGED << view, sessionDetail, sessionId, initialPrompt, fileInfos,
                  dataSourceIds, fileIds, sheetCalls, clock, turnKind,
                  assistantMsgId, streamContent, thrown, requests, streamVars >>

(***************************************************************************)
(* Sheet selection.                                                        *)
(***************************************************************************)
\* handleCheckboxChange without the test selectedSheets.length > 1
handleCheckboxChange_NoMinimum(selectedSheets, sheet) ==
  IF ~(\E i \in 1..Len(selectedSheets) : selectedSheets[i] = sheet)
  THEN Append(selectedSheets, sheet)
  ELSE SelectSeq(selectedSheets, LAMBDA s : s # sheet)

\* SheetSelector.handleCheckboxChange (SheetSelector.tsx 34-43): the list
\* passed to onChange when the checkbox of sheet is toggled, or Undefined
\* when onChange is not called
Includes(a, x) == \E i \in 1..Len(a) : a[i] = x

handleCheckboxChange(selectedSheets, sheet) ==
  IF ~Includes(selectedSheets, sheet)
  THEN Append(selectedSheets, sheet)
  ELSE IF Len(selectedSheets) > 1
       THEN SelectSeq(selectedSheets, LAMBDA s : s # sheet)
       ELSE Undefined

\* the confirmation text: how many sheets and which
SheetsInfo(newSheets) ==
  "selected " \o ToStr(Len(newSheets)) \o " sheets: " \o join(newSheets)

\* the sheet names the selector of file i shows (SheetSelector.tsx 26-28:
\* nothing when there is at most one sheet)
SheetNamesOf(info) ==
  IF view = "session" THEN info.sheet_names ELSE info.uploadResult.sheet_names

FileIdOf(info) ==
  IF view = "session" THEN info.file_id ELSE info.uploadResult.file_id

\* the selector is rendered disabled (SessionPage.tsx 319, part_002 387)
SelectorDisabled == IF view = "session" THEN loading \/ isStreaming ELSE loading

\* a call of handleSheetsChange that is awaiting the backend
SheetCall(state, fileIndex, newSheets, infos) ==
  [pc |-> state, fileIndex |-> fileIndex, newSheets |-> newSheets, infos |-> infos]

\* SessionPage.handleSheetsChange up to its first await (SessionPage.tsx
\* 141-166), called by the checkbox of a sheet of file i
SessionHandleSheetsChange(i, sheet) ==
  /\ view = "session"
  /\ mounted
  /\ NoJobQueued
  /\ ~SelectorDisabled
  /\ Len(sheetCalls) < MaxSheetChanges
  /\ i \in 1..Len(fileInfos)
  /\ Len(fileInfos[i].sheet_names) > 1
  /\ Includes(fileInfos[i].sheet_names, sheet)
  /\ LET newSheets    == handleCheckboxChange(fileInfos[i].selectedSheets, sheet)
         updatedInfos == [fileInfos EXCEPT ![i].selectedSheets = newSheets]
     IN  /\ newSheets # Undefined
         /\ fileInfos' = updatedInfos
         /\ dataSourceIds' = DataSourceIdsOf(updatedInfos)
         /\ sheetCalls' = Append(sheetCalls,
                                 SheetCall("selecting", i, newSheets, updatedInfos))
  /\ lastOp' = "handleSheetsChange"
  /\ UNCHANGED << clientVars, optionVars, pageVars >>
  /\ UNCHANGED << mounted, chartVars >>
  /\ UNCHANGED << view, messages, loading, isStreaming, sessionDetail, sessionId,
                  initialPrompt, fileIds, clock, turnVars, streamVars >>

\* selectMultipleSheets resolves in SessionPage: the confirmation message is
\* appended and updateSessionFileMetadata is called (SessionPage.tsx 166-191)
SessionSelectSheetsDone(k) ==
  /\ view = "session"
  /\ NoJobQueued
  /\ k \in 1..Len(sheetCalls)
  /\ sheetCalls[k].pc = "selecting"
  /\ \E t \in Now :
       /\ messages' = setState(messages,
                               Append(messages,
                                      Plain(Id("sheet-change-", t), "assistant",
                                            SheetsInfo(sheetCalls[k].newSheets))))
       /\ clock' = t
  /\ sheetCalls' = [sheetCalls EXCEPT ![k].pc = "updating"]
  /\ lastOp' = "selectMultipleSheets"
  /\ UNCHANGED << clientVars, optionVars, pageVars >>
  /\ UNCHANGED << mounted, chartVars >>
  /\ UNCHANGED << view, loading, isStreaming, sessionDetail, sessionId,
                  initialPrompt, fileInfos, dataSourceIds, fileIds, turnVars,
                  streamVars >>

\* selectMultipleSheets rejects in SessionPage: the error is logged
\* (SessionPage.tsx 179-181)
SessionSelectSheetsFailed(k) ==
  /\ view = "session"
  /\ NoJobQueued
  /\ k \in 1..Len(sheetCalls)
  /\ sheetCalls[k].pc = "selecting"
  /\ sheetCalls' = [sheetCalls EXCEPT ![k].pc = "updating"]
  /\ lastOp' = "selectMultipleSheets:failed"
  /\ UNCHANGED << clientVars, optionVars, pageVars >>
  /\ UNCHANGED << mounted, chartVars >>
  /\ UNCHANGED << view, messages, loading, isStreaming, sessionDetail, sessionId,
                  initialPrompt, fileInfos, dataSourceIds, fileIds, clock,
                  turnVars, streamVars >>

\* updateSessionFileMetadata resolves or rejects in SessionPage; a rejection
\* is logged (SessionPage.tsx 191-196)
SessionUpdateMetadataSettled(k) ==
  /\ view = "session"
  /\ NoJobQueued
  /\ k \in 1..Len(sheetCalls)
  /\ sheetCalls[k].pc = "updating"
  /\ sheetCalls' = [sheetCalls EXCEPT ![k].pc = "done"]
  /\ lastOp' = "updateSessionFileMetadata"
  /\ UNCHANGED << clientVars, optionVars, pageVars >>
  /\ UNCHANGED << mounted, chartVars >>
  /\ UNCHANGED << view, messages, loading, isStreaming, sessionDetail, sessionId,
                  initialPrompt, fileInfos, dataSourceIds, fileIds, clock,
                  turnVars, streamVars >>

(***************************************************************************)
(* GeneratePage (src/unnamed/part_002 33-409).                             *)
(***************************************************************************)
\* the files prop: one file
Files == << "a.xlsx" >>

\* the prompts the home page passes: prompt.trim(), which may be empty
Prompts == {"", "plot totals"}

\* the responses of uploadFile for the file: a workbook of two sheets with
\* the first selected, or a csv file
UploadResults ==
  { << [file_id |-> "f1", filename |-> "a.xlsx", rows |-> 2,
        columns |-> << "k", "v" >>, sheet_names |-> << "S1", "S2" >>,
        selected_sheet |-> "S1"] >>,
    << [file_id |-> "f1", filename |-> "a.xlsx", rows |-> 2,
        columns |-> << "k", "v" >>, sheet_names |-> << >>,
        selected_sheet |-> Undefined] >> }

\* part_002 72-79
UploadDataSourceIds(uploadResults) ==
  [i \in 1..Len(uploadResults) |->
     IF Truthy(uploadResults[i].selected_sheet)
     THEN uploadResults[i].file_id \o ":" \o uploadResults[i].selected_sheet
     ELSE uploadResults[i].file_id]

\* part_002 83-89
UploadInfos(uploadResults) ==
  [i \in 1..Len(uploadResults) |->
     [file           |-> Files[i],
      uploadResult   |-> uploadResults[i],
      selectedSheets |-> IF Truthy(uploadResults[i].selected_sheet)
                         THEN << uploadResults[i].selected_sheet >>
                         ELSE << >>]]

\* part_002 93-104
UploadMessages(uploadResults) ==
  [i \in 1..Len(uploadResults) |->
     LET res == uploadResults[i]
     IN  Plain(Id("upload-", i - 1), "assistant",
               "file " \o Files[i] \o " uploaded, rows: " \o ToStr(res.rows)
               \o ", columns: " \o join(res.columns)
               \o (IF Len(res.sheet_names) > 1
                   THEN " sheets: " \o join(res.sheet_names)
                   ELSE ""))]

\* the component is mounted and init has run to its first await (part_002
\* 38-68)
InitGenerate ==
  /\ view = "generate"
  /\ pc = "uploading"
  /\ messages = << Msg(LitId("m1"), "assistant",
                       "uploading " \o ToStr(Len(Files)) \o " files",
                       Absent, TRUE, FALSE) >>
  /\ loading = TRUE
  /\ isStreaming = FALSE
  /\ sessionDetail = Absent
  /\ sessionId = Undefined
  /\ initialPrompt \in Prompts
  /\ fileInfos = << >>
  /\ dataSourceIds = << >>
  /\ fileIds = << >>
  /\ sheetCalls = << >>
  /\ turnKind = "init"
  /\ assistantMsgId = << >>
  /\ streamContent = ""
  /\ thrown = Undefined
  /\ requests = << >>
  /\ wire = << >>
  /\ closed = FALSE
  /\ held = << >>
  /\ buffer = << >>
  /\ events = << >>
  /\ sent = << >>
  /\ clock = 0
  /\ mounted = TRUE
  /\ NoCharts
  /\ NoFetches
  /\ NoOption
  /\ NoPages
  /\ lastOp = "mount"

\* every upload resolves: init runs to createSession (part_002 68-125)
UploadDone(uploadResults) ==
  /\ view = "generate"
  /\ pc = "uploading"
  /\ IF cancelled
     THEN /\ pc' = "idle"
          /\ UNCHANGED << dataSourceIds, fileIds, fileInfos, messages >>
     ELSE /\ dataSourceIds' = UploadDataSourceIds(uploadResults)
          /\ fileIds' = UploadDataSourceIds(uploadResults)
          /\ fileInfos' = UploadInfos(uploadResults)
          /\ messages' = << Msg(LitId("m1"), "assistant",
                                "uploaded " \o ToStr(Len(Files)) \o " files",
                                Absent, FALSE, FALSE) >>
                         \o UploadMessages(uploadResults)
          /\ pc' = "creating"
  /\ lastOp' = "uploadFile"
  /\ UNCHANGED << clientVars, optionVars, pageVars >>
  /\ UNCHANGED << mounted, chartVars >>
  /\ UNCHANGED << view, loading, isStreaming, sessionDetail, sessionId,
                  initialPrompt, sheetCalls, clock, turnKind, assistantMsgId,
                  streamContent, thrown, requests, streamVars >>

\* an upload or createSession rejects: control passes to the catch block of
\* init (part_002 68, 125, 176)
InitCallFailed(err) ==
  /\ view = "generate"
  /\ pc \in {"uploading", "creating"}
  /\ thrown' = err
  /\ pc' = "settled"
  /\ lastOp' = "init:failed"
  /\ UNCHANGED << clientVars, optionVars, pageVars >>
  /\ UNCHANGED << mounted, chartVars >>
  /\ UNCHANGED << viewVars, turnKind, assistantMsgId, streamContent, requests,
                  streamVars >>

\* createSession resolves: with a prompt init starts the first turn, without
\* one it is finished (part_002 125-143)
CreateSessionDone(id) ==
  /\ view = "generate"
  /\ pc = "creating"
  /\ sessionId' = IF cancelled THEN sessionId ELSE id
  /\ IF cancelled
     THEN /\ pc' = "idle"
          /\ UNCHANGED << messages, assistantMsgId, requests >>
     ELSE IF Truthy(initialPrompt)
     THEN /\ messages' = messages
                           \o TurnEntries(LitId("m3"), LitId("m4"), initialPrompt)
          /\ assistantMsgId' = LitId("m4")
          /\ requests' = Append(requests,
                                Payload(id, initialPrompt, dataSourceIds))
          /\ pc' = "fetching"
     ELSE /\ pc' = "settled"
          /\ UNCHANGED << messages, assistantMsgId, requests >>
  /\ streamContent' = ""
  /\ thrown' = Undefined
  /\ lastOp' = "createSession"
  /\ UNCHANGED << clientVars, optionVars, pageVars >>
  /\ UNCHANGED << mounted, chartVars >>
  /\ UNCHANGED << view, loading, isStreaming, sessionDetail, initialPrompt,
                  fileInfos, dataSourceIds, fileIds, sheetCalls, clock, turnKind,
                  streamVars >>

\* the rest of init once its last await has settled: the catch block on a
\* rejection, then the finally block (part_002 176-188)
InitSettle ==
  /\ view = "generate"
  /\ pc = "settled"
  /\ turnKind = "init"
  /\ messages' = IF thrown # Undefined /\ ~cancelled
                 THEN Append(messages,
                             Plain(LitId("error"), "assistant",
                                   InitFailedPrefix \o thrown))
                 ELSE messages
  /\ loading' = IF cancelled THEN loading ELSE FALSE
  /\ pc' = "idle"
  /\ lastOp' = "init:settle"
  /\ UNCHANGED << clientVars, optionVars, pageVars >>
  /\ UNCHANGED << mounted, chartVars >>
  /\ UNCHANGED << view, isStreaming, sessionDetail, sessionId, initialPrompt,
                  fileInfos, dataSourceIds, fileIds, sheetCalls, clock, turnKind,
                  assistantMsgId, streamContent, thrown, requests, streamVars >>

\* GeneratePage.handleSheetsChange up to its first await (part_002 271-278),
\* called by the checkbox of a sheet of file i
GenerateHandleSheetsChange(i, sheet) ==
  /\ view = "generate"
  /\ mounted
  /\ NoJobQueued
  /\ ~SelectorDisabled
  /\ Len(sheetCalls) < MaxSheetChanges
  /\ i \in 1..Len(fileInfos)
  /\ Len(fileInfos[i].uploadResult.sheet_names) > 1
  /\ Includes(fileInfos[i].uploadResult.sheet_names, sheet)
  /\ LET newSelectedSheets == handleCheckboxChange(fileInfos[i].selectedSheets, sheet)
     IN  /\ newSelectedSheets # Undefined
         /\ Len(newSelectedSheets) # 0
         /\ sheetCalls' = Append(sheetCalls,
                                 SheetCall("selecting", i, newSelectedSheets,
                                           fileInfos))
  /\ loading' = TRUE
  /\ lastOp' = "handleSheetsChange"
  /\ UNCHANGED << clientVars, optionVars, pageVars >>
  /\ UNCHANGED << mounted, chartVars >>
  /\ UNCHANGED << view, messages, isStreaming, sessionDetail, sessionId,
                  initialPrompt, fileInfos, dataSourceIds, fileIds, clock,
                  turnVars, streamVars >>

\* a builder that appends the file ids and leaves the selected sheets out
GenerateDataSourceIds_FileIdsOnly(infos) ==
  [i \in 1..Len(infos) |-> infos[i].uploadResult.file_id]

\* part_002 289-298
RECURSIVE GenerateDataSourceIds(_)
GenerateDataSourceIds(infos) ==
  IF infos = << >> THEN << >>
  ELSE (IF Len(Head(infos).selectedSheets) > 0
        THEN SheetTokens(Head(infos).uploadResult.file_id, Head(infos).selectedSheets)
        ELSE << Head(infos).uploadResult.file_id >>)
       \o GenerateDataSourceIds(Tail(infos))

\* selectMultipleSheets resolves in GeneratePage (part_002 278-328, 338-340)
GenerateSelectSheetsDone(k) ==
  /\ view = "generate"
  /\ NoJobQueued
  /\ k \in 1..Len(sheetCalls)
  /\ sheetCalls[k].pc = "selecting"
  /\ LET call     == sheetCalls[k]
         newInfos == [call.infos EXCEPT
                        ![call.fileIndex].selectedSheets = call.newSheets]
     IN  /\ fileInfos' = setState(fileInfos, newInfos)
         /\ fileIds' = setState(fileIds, GenerateDataSourceIds(newInfos))
         /\ \E t \in Now :
              /\ messages' = setState(messages,
                                Append(messages,
                                       Plain(Id("sheet-switch-", t), "assistant",
                                             SheetsInfo(call.newSheets))))
              /\ clock' = t
  /\ IF sessionId # Undefined
     THEN /\ sheetCalls' = [sheetCalls EXCEPT ![k].pc = "updating"]
          /\ UNCHANGED loading
     ELSE /\ sheetCalls' = [sheetCalls EXCEPT ![k].pc = "done"]
          /\ loading' = setState(loading, FALSE)
  /\ lastOp' = "selectMultipleSheets"
  /\ UNCHANGED << clientVars, optionVars, pageVars >>
  /\ UNCHANGED << mounted, chartVars >>
  /\ UNCHANGED << view, isStreaming, sessionDetail, sessionId, initialPrompt,
                  dataSourceIds, turnVars, streamVars >>

\* selectMultipleSheets rejects in GeneratePage (part_002 329-340)
GenerateSelectSheetsFailed(k) ==
  /\ view = "generate"
  /\ NoJobQueued
  /\ k \in 1..Len(sheetCalls)
  /\ sheetCalls[k].pc = "selecting"
  /\ \E t \in Now :
       /\ messages' = setState(messages,
                         Append(messages,
                                Plain(Id("sheet-error-", t), "assistant",
                                      "select sheet failed: " \o "Failed to fetch")))
       /\ clock' = t
  /\ sheetCalls' = [sheetCalls EXCEPT ![k].pc = "done"]
  /\ loading' = setState(loading, FALSE)
  /\ lastOp' = "selectMultipleSheets:failed"
  /\ UNCHANGED << clientVars, optionVars, pageVars >>
  /\ UNCHANGED << mounted, chartVars >>
  /\ UNCHANGED << view, isStreaming, sessionDetail, sessionId, initialPrompt,
                  fileInfos, dataSourceIds, fileIds, turnVars, streamVars >>

\* updateSessionFileMetadata resolves or rejects in GeneratePage; a rejection
\* is logged (part_002 323-327, 338-340)
GenerateUpdateMetadataSettled(k) ==
  /\ view = "generate"
  /\ NoJobQueued
  /\ k \in 1..Len(sheetCalls)
  /\ sheetCalls[k].pc = "updating"
  /\ sheetCalls' = [sheetCalls EXCEPT ![k].pc = "done"]
  /\ loading' = setState(loading, FALSE)
  /\ lastOp' = "updateSessionFileMetadata"
  /\ UNCHANGED << clientVars, optionVars, pageVars >>
  /\ UNCHANGED << mounted, chartVars >>
  /\ UNCHANGED << view, messages, isStreaming, sessionDetail, sessionId,
                  initialPrompt, fileInfos, dataSourceIds, fileIds, clock,
                  turnVars, streamVars >>

(***************************************************************************)
(* The two views: every interleaving of the handlers of a view with the    *)
(* backend's responses.                                                    *)
(***************************************************************************)
\* the sheets of the workbook, the errors an upload or createSession rejects
\* with, the ids createSession returns
SheetNames == {"S1", "S2"}

InitErrors == {"Failed to fetch"}

SessionIds == {"s2"}

Init == InitSession \/ InitGenerate

Next ==
  \/ \E detail \in Details : LoadSessionDone(detail)
  \/ LoadSessionFailed
  \/ \E text \in Texts : HandleSend(text)
  \/ FetchResponse
  \/ \E err \in FetchErrors : FetchFailed(err)
  \/ \E l \in ViewLines : BackendWrite(l)
  \/ BackendClose
  \/ \E n \in 1..Len(wire) : ReaderRead(n)
  \/ ReaderDone
  \/ ReaderFailed
  \/ HandleSendSettle
  \/ \E i \in 1..Len(fileInfos) : \E sheet \in SheetNames :
       SessionHandleSheetsChange(i, sheet)
  \/ \E k \in 1..Len(sheetCalls) : SessionSelectSheetsDone(k)
  \/ \E k \in 1..Len(sheetCalls) : SessionSelectSheetsFailed(k)
  \/ \E k \in 1..Len(sheetCalls) : SessionUpdateMetadataSettled(k)
  \/ \E uploadResults \in UploadResults : UploadDone(uploadResults)
  \/ \E err \in InitErrors : InitCallFailed(err)
  \/ \E id \in SessionIds : CreateSessionDone(id)
  \/ InitSettle
  \/ \E i \in 1..Len(fileInfos) : \E sheet \in SheetNames :
       GenerateHandleSheetsChange(i, sheet)
  \/ \E k \in 1..Len(sheetCalls) : GenerateSelectSheetsDone(k)
  \/ \E k \in 1..Len(sheetCalls) : GenerateSelectSheetsFailed(k)
  \/ \E k \in 1..Len(sheetCalls) : GenerateUpdateMetadataSettled(k)

Spec == Init /\ [][Next]_vars

\* the continuation of an async function whose awaited promise has settled
\* is a queued job: it runs
FairSpec == Spec /\ WF_vars(HandleSendSettle) /\ WF_vars(InitSettle)

(***************************************************************************)
(* Teardown.  App.tsx 41-63 renders a page only while `page` names it:     *)
(* onBack sets another page and React unmounts the view, running the       *)
(* cleanup of its mount effect (SessionPage.tsx 134-136, part_002          *)
(* 193-195).  Nothing aborts the requests the view has issued: their       *)
(* responses still arrive and the code after each await still runs.        *)
(***************************************************************************)
Teardown ==
  /\ view \in {"session", "generate"}
  /\ mounted
  /\ NoJobQueued
  /\ mounted' = FALSE
  /\ lastOp' = "teardown"
  /\ UNCHANGED << clientVars, optionVars, pageVars >>
  /\ UNCHANGED << viewVars, turnVars, streamVars, chartVars >>

NextTeardown == Next \/ Teardown

SpecTeardown == Init /\ [][NextTeardown]_vars

(***************************************************************************)
(* ChatMessageList alone (src/src/components/ChatMessageList.tsx): the     *)
(* list is given the transcripts its parent view gives it (a restored      *)
(* history, then turns whose events rewrite the last entry) and every      *)
(* change of the transcript is rendered and its effects run before the     *)
(* next event is handled.                                                  *)
(***************************************************************************)
\* the Map of chartInstancesRef as the sequence of its values in insertion
\* order: has, set (a present key keeps its position), delete
MapHas(map, key) == \E i \in 1..Len(map) : map[i].messageId = key

MapGet(map, key) == map[CHOOSE i \in 1..Len(map) : map[i].messageId = key]

MapSet(map, key, value) ==
  IF MapHas(map, key)
  THEN [i \in 1..Len(map) |-> IF map[i].messageId = key THEN value ELSE map[i]]
  ELSE Append(map, value)

MapDelete(map, key) == SelectSeq(map, LAMBDA r : r.messageId # key)

\* ChartInstanceRef (ChatMessageList.tsx 14-18); an instance is named by its
\* position in `instances`
ChartInstanceRef(messageId, instance, title) ==
  [messageId |-> messageId, instance |-> instance, title |-> title]

\* config?.title?.text || "chart" (ChatMessageList.tsx 262-263)
TitleOf(config) ==
  IF "title" \in DOMAIN config /\ Truthy(config.title.text)
  THEN config.title.text ELSE "chart"

\* handleInstanceReady (ChatMessageList.tsx 257-266)
handleInstanceReady(map, messageId, instance, config) ==
  MapSet(map, messageId, ChartInstanceRef(messageId, instance, TitleOf(config)))

\* handleInstanceDestroy that leaves the Map as it is
handleInstanceDestroy_KeepsRecord(map, messageId) == map

\* handleInstanceDestroy (ChatMessageList.tsx 269-272)
handleInstanceDestroy(map, messageId) == MapDelete(map, messageId)

\* a cleanup that does not dispose the instance
dispose_Skipped(inst, h) == inst

\* echarts' dispose
dispose(inst, h) == [inst EXCEPT ![h].disposed = @ + 1]

\* chartInstanceRef.current of a MessageChart that holds no instance
Null == 0

\* the chart state effects work on
ChartState(map, inst, refs) == [map |-> map, inst |-> inst, refs |-> refs]

\* the cleanup without `chartInstanceRef.current = null`
EffectCleanup_KeepsCurrent(cs, messageId) ==
  LET h == MapGet(cs.refs, messageId).current
  IN  ChartState(MapDelete(cs.map, messageId),
                 IF h # 0 THEN [cs.inst EXCEPT ![h].disposed = @ + 1] ELSE cs.inst,
                 cs.refs)

\* the cleanup of MessageChart's second effect (ChatMessageList.tsx 127-133):
\* onInstanceDestroy, dispose, chartInstanceRef.current = null
EffectCleanup(cs, messageId) ==
  LET h == MapGet(cs.refs, messageId).current
  IN  ChartState(handleInstanceDestroy(cs.map, messageId),
                 IF h # Null THEN dispose(cs.inst, h) ELSE cs.inst,
                 MapSet(cs.refs, messageId,
                        [messageId |-> messageId, current |-> Null]))

\* MessageChart's first effect (ChatMessageList.tsx 53-60): echarts.init and
\* onInstanceReady when the component holds no instance, setOption either way
EffectInit(cs, messageId, config) ==
  IF MapGet(cs.refs, messageId).current = Null
  THEN LET h == Len(cs.inst) + 1
       IN  ChartState(handleInstanceReady(cs.map, messageId, h, config),
                      Append(cs.inst, [messageId |-> messageId, disposed |-> 0]),
                      MapSet(cs.refs, messageId,
                             [messageId |-> messageId, current |-> h]))
  ELSE cs

HasEntry(msgs, id) == \E i \in 1..Len(msgs) : msgs[i].id = id

EntryOf(msgs, id) == msgs[CHOOSE i \in 1..Len(msgs) : msgs[i].id = id]

\* {m.chartConfig && <MessageChart ...>} (ChatMessageList.tsx 193-202)
ShowsChart(msgs, id) == HasEntry(msgs, id) /\ EntryOf(msgs, id).chartConfig # Absent

\* the comparator of ChatMessageItem (ChatMessageList.tsx 205-215);
\* chartConfig is compared by identity: newConfig tells that next's object
\* was built by the step being rendered
areEqual(prev, next, newConfig) ==
  /\ prev.id = next.id
  /\ prev.content = next.content
  /\ prev.isLoading = next.isLoading
  /\ prev.chartConfig = next.chartConfig
  /\ ~(newConfig /\ next.chartConfig # Absent)

\* the item keyed id is rendered again; its MessageChart is then given new
\* onInstanceReady and onInstanceDestroy functions (ChatMessageList.tsx
\* 197-200), so the dependencies of both its effects have changed
ItemRerenders(prev, next, newConfigs, id) ==
  /\ HasEntry(prev, id)
  /\ HasEntry(next, id)
  /\ ~areEqual(EntryOf(prev, id), EntryOf(next, id), id \in newConfigs)

RECURSIVE RunCleanups(_, _)
RunCleanups(cs, ids) ==
  IF ids = << >> THEN cs
  ELSE RunCleanups(EffectCleanup(cs, Head(ids).messageId), Tail(ids))

RECURSIVE RunInits(_, _)
RunInits(cs, entries) ==
  IF entries = << >> THEN cs
  ELSE LET m  == Head(entries)
           c1 == IF MapHas(cs.refs, m.id) THEN cs
                 ELSE ChartState(cs.map, cs.inst,
                                 Append(cs.refs, [messageId |-> m.id,
                                                  current |-> Null]))
       IN  RunInits(EffectInit(c1, m.id, m.chartConfig), Tail(entries))

\* one commit of React for the transcript going from prev to next: the
\* cleanups of the MessageCharts that are unmounted or rendered again, then
\* the effects of those that are mounted or rendered again
Commit(cs, prev, next, newConfigs) ==
  LET leaves(r)  == ~ShowsChart(next, r.messageId)
      again(id)  == ItemRerenders(prev, next, newConfigs, id)
      cleaned    == RunCleanups(cs, SelectSeq(cs.refs,
                                  LAMBDA r : leaves(r) \/ again(r.messageId)))
      kept       == ChartState(cleaned.map, cleaned.inst,
                               SelectSeq(cleaned.refs, LAMBDA r : ~leaves(r)))
      runs(m)    == /\ m.chartConfig # Absent
                    /\ (~MapHas(cs.refs, m.id) \/ again(m.id))
  IN  RunInits(kept, SelectSeq(next, runs))

\* the chart state after the commit
Render(prev, next, newConfigs) ==
  LET cs == Commit(ChartState(chartInstancesRef, instances, chartInstanceRef),
                   prev, next, newConfigs)
  IN  /\ chartInstancesRef' = cs.map
      /\ instances' = cs.inst
      /\ chartInstanceRef' = cs.refs

\* the chart_config of a second kind of chart
CfgSales == [title |-> [text |-> "Sales"]]

\* the restored histories the list is first rendered with: no chart, one
\* chart, two charts
ListHistories ==
  { << >>,
    << [id |-> 1, role |-> "user", content |-> "q0", chart_config |-> Absent],
       [id |-> 2, role |-> "assistant", content |-> "a0",
        chart_config |-> CfgTotals] >>,
    << [id |-> 1, role |-> "user", content |-> "q0", chart_config |-> Absent],
       [id |-> 2, role |-> "assistant", content |-> "a0",
        chart_config |-> CfgTotals],
       [id |-> 3, role |-> "user", content |-> "q1", chart_config |-> Absent],
       [id |-> 4, role |-> "assistant", content |-> "a1",
        chart_config |-> CfgSales] >> }

\* the events the stream of a turn delivers to the callbacks
ListEvents ==
  { [type |-> "chunk", content |-> "Here"],
    [type |-> "done", chartConfig |-> CfgTotals],
    [type |-> "done", chartConfig |-> Absent],
    [type |-> "error", error |-> "boom"] }

\* the list is mounted with a restored history and its effects have run
InitList ==
  /\ view = "list"
  /\ pc = "idle"
  /\ \E h \in ListHistories :
       LET cs == Commit(ChartState(<< >>, << >>, << >>), << >>,
                        ChatMessages(h), {})
       IN  /\ messages = ChatMessages(h)
           /\ chartInstancesRef = cs.map
           /\ instances = cs.inst
           /\ chartInstanceRef = cs.refs
  /\ timers = << >>
  /\ alerts = 0
  /\ loading = FALSE
  /\ isStreaming = FALSE
  /\ sessionDetail = Absent
  /\ sessionId = "s1"
  /\ initialPrompt = ""
  /\ fileInfos = << >>
  /\ dataSourceIds = << >>
  /\ fileIds = << >>
  /\ sheetCalls = << >>
  /\ turnKind = "send"
  /\ assistantMsgId = << >>
  /\ streamContent = ""
  /\ thrown = Undefined
  /\ requests = << >>
  /\ wire = << >>
  /\ closed = FALSE
  /\ held = << >>
  /\ buffer = << >>
  /\ events = << >>
  /\ sent = << >>
  /\ clock = 0
  /\ mounted = TRUE
  /\ NoFetches
  /\ NoOption
  /\ NoPages
  /\ lastOp = "mount"

\* the parent starts a turn: the user entry and the empty assistant entry
\* are appended (SessionPage.tsx 202-207)
ListTurnStart ==
  /\ view = "list"
  /\ mounted
  /\ pc = "idle"
  /\ clock < MaxListTurns
  /\ clock' = clock + 1
  /\ assistantMsgId' = Id("a-", clock + 1)
  /\ messages' = messages \o TurnEntries(Id("u-", clock + 1), Id("a-", clock + 1),
                                         "plot totals")
  /\ streamContent' = ""
  /\ events' = << >>
  /\ pc' = "streaming"
  /\ Render(messages, messages', {})
  /\ lastOp' = "handleSend"
  /\ UNCHANGED << clientVars, optionVars, pageVars >>
  /\ UNCHANGED << view, loading, isStreaming, sessionDetail, sessionId,
                  initialPrompt, fileInfos, dataSourceIds, fileIds, sheetCalls,
                  turnKind, thrown, requests, wire, closed, held, buffer, sent,
                  mounted, timers, alerts >>

\* a callback of the turn rewrites the last entry (SessionPage.tsx 223-252)
\* and the list renders the new transcript
ListEvent(e) ==
  /\ view = "list"
  /\ mounted
  /\ pc = "streaming"
  /\ Len(events) < MaxListEvents
  /\ LET st == Callback([messages |-> messages, streamContent |-> streamContent], e)
     IN  /\ messages' = st.messages
         /\ streamContent' = st.streamContent
  /\ events' = Append(events, e)
  /\ Render(messages, messages',
            IF e.type = "done" THEN {assistantMsgId} ELSE {})
  /\ lastOp' = "callback"
  /\ UNCHANGED << clientVars, optionVars, pageVars >>
  /\ UNCHANGED << view, loading, isStreaming, sessionDetail, sessionId,
                  initialPrompt, fileInfos, dataSourceIds, fileIds, sheetCalls,
                  clock, pc, turnKind, assistantMsgId, thrown, requests, wire,
                  closed, held, buffer, sent, mounted, timers, alerts >>

\* the stream of the turn ends (SessionPage.tsx 263-265)
ListTurnEnd ==
  /\ view = "list"
  /\ mounted
  /\ pc = "streaming"
  /\ pc' = "idle"
  /\ lastOp' = "handleSend:settle"
  /\ UNCHANGED << clientVars, optionVars, pageVars >>
  /\ UNCHANGED << viewVars, turnKind, assistantMsgId, streamContent, thrown,
                  requests, streamVars, mounted, chartVars >>

\* the view is torn down: the list and every item are unmounted, the cleanup
\* of every MessageChart runs (ChatMessageList.tsx 127-133)
ListUnmount ==
  /\ view = "list"
  /\ mounted
  /\ mounted' = FALSE
  /\ Render(messages, << >>, {})
  /\ lastOp' = "teardown"
  /\ UNCHANGED << clientVars, optionVars, pageVars >>
  /\ UNCHANGED << viewVars, turnVars, streamVars, timers, alerts >>

\* a timer whose first export is one interval late
Timer_FirstAfterInterval(call, index, item) ==
  [call |-> call, index |-> index, delay |-> (index + 1) * 300, item |-> item,
   state |-> "pending"]

\* setTimeout(..., index * 300) of one item of the snapshot
\* (ChatMessageList.tsx 238-251)
Timer(call, index, item) ==
  [call |-> call, index |-> index, delay |-> index * 300, item |-> item,
   state |-> "pending"]

\* the calls of exportAllCharts that scheduled something or alerted
ExportCalls == alerts + Cardinality({timers[k].call : k \in 1..Len(timers)})

\* exportAllCharts (ChatMessageList.tsx 231-252), called by the export
\* button of the view (SessionPage.tsx 269-271)
exportAllCharts ==
  /\ view = "list"
  /\ mounted
  /\ ExportCalls < MaxExportCalls
  /\ LET snapshot == chartInstancesRef
     IN  IF Len(snapshot) = 0
         THEN /\ alerts' = alerts + 1
              /\ UNCHANGED timers
         ELSE /\ timers' = timers \o [i \in 1..Len(snapshot) |->
                                        Timer(ExportCalls + 1, i - 1, snapshot[i])]
              /\ UNCHANGED alerts
  /\ lastOp' = "exportAllCharts"
  /\ UNCHANGED << clientVars, optionVars, pageVars >>
  /\ UNCHANGED << viewVars, turnVars, streamVars, mounted, chartInstancesRef,
                  instances, chartInstanceRef >>

\* timer k is due: every timer set earlier with no longer a delay has fired
Due(k) ==
  /\ timers[k].state = "pending"
  /\ \A j \in 1..(k - 1) :
       timers[j].delay <= timers[k].delay => timers[j].state # "pending"

\* the callback of a timer runs (ChatMessageList.tsx 239-249): getDataURL is
\* called on the instance of the snapshot, disposed or not
ExportTimer(k) ==
  /\ view = "list"
  /\ k \in 1..Len(timers)
  /\ Due(k)
  /\ timers' = [timers EXCEPT
                  ![k].state = IF instances[timers[k].item.instance].disposed > 0
                               THEN "exportedDisposed" ELSE "exported"]
  /\ lastOp' = "exportTimer"
  /\ UNCHANGED << clientVars, optionVars, pageVars >>
  /\ UNCHANGED << viewVars, turnVars, streamVars, mounted, chartInstancesRef,
                  instances, chartInstanceRef, alerts >>

NextList ==
  \/ ListTurnStart
  \/ \E e \in ListEvents : ListEvent(e)
  \/ ListTurnEnd
  \/ ListUnmount
  \/ exportAllCharts
  \/ \E k \in 1..Len(timers) : ExportTimer(k)

SpecList == InitList /\ [][NextList]_vars

(***************************************************************************)
(* The builders of the token set alone: the forEach of loadSession         *)
(* (SessionPage.tsx 68-79), of SessionPage.handleSheetsChange              *)
(* (SessionPage.tsx 149-160) and of GeneratePage.handleSheetsChange        *)
(* (part_002 288-299), applied to file-selection lists of up to            *)
(* MaxTokenFiles files.                                                    *)
(***************************************************************************)
\* the selections of one file: none, one sheet, two sheets in either order
TokenSelections == { << >>, << "S1" >>, << "S2" >>, << "S1", "S2" >>, << "S2", "S1" >> }

TokenFileIds == << "f1", "f2", "f3" >>

\* the file-selection lists of n files
TokenInfos(n) ==
  { [i \in 1..n |-> [file_id |-> TokenFileIds[i], filename |-> "a.xlsx",
                     sheet_names |-> << "S1", "S2" >>,
                     selectedSheets |-> sel[i]]] :
      sel \in [1..n -> TokenSelections] }

\* the same list as GeneratePage holds it (FileInfo, part_002 24-28)
AsGenerateInfos(infos) ==
  [i \in 1..Len(infos) |->
     [file |-> infos[i].filename,
      uploadResult |-> [file_id |-> infos[i].file_id,
                        filename |-> infos[i].filename,
                        sheet_names |-> infos[i].sheet_names],
      selectedSheets |-> infos[i].selectedSheets]]

InitTokens ==
  /\ view = "tokens"
  /\ pc = "idle"
  /\ \E n \in 1..MaxTokenFiles : fileInfos \in TokenInfos(n)
  /\ dataSourceIds = << >>
  /\ fileIds = << >>
  /\ messages = << >>
  /\ loading = FALSE
  /\ isStreaming = FALSE
  /\ sessionDetail = Absent
  /\ sessionId = "s1"
  /\ initialPrompt = ""
  /\ sheetCalls = << >>
  /\ turnKind = "send"
  /\ assistantMsgId = << >>
  /\ streamContent = ""
  /\ thrown = Undefined
  /\ requests = << >>
  /\ wire = << >>
  /\ closed = FALSE
  /\ held = << >>
  /\ buffer = << >>
  /\ events = << >>
  /\ sent = << >>
  /\ clock = 0
  /\ mounted = TRUE
  /\ NoCharts
  /\ NoFetches
  /\ NoOption
  /\ NoPages
  /\ lastOp = "mount"

\* loadSession builds the token set of the restored list (SessionPage.tsx
\* 68-79)
TokensRestore ==
  /\ view = "tokens"
  /\ lastOp = "mount"
  /\ dataSourceIds' = DataSourceIdsOf(fileInfos)
  /\ lastOp' = "loadSession"
  /\ UNCHANGED << clientVars, optionVars, pageVars >>
  /\ UNCHANGED << view, messages, loading, isStreaming, sessionDetail, sessionId,
                  initialPrompt, fileInfos, fileIds, sheetCalls, clock, turnVars,
                  streamVars, mounted, chartVars >>

\* the selection of file i is changed in the session view (SessionPage.tsx
\* 142-160)
TokensSessionChange(i, newSheets) ==
  /\ view = "tokens"
  /\ i \in 1..Len(fileInfos)
  /\ newSheets # fileInfos[i].selectedSheets
  /\ LET updatedInfos == [fileInfos EXCEPT ![i].selectedSheets = newSheets]
     IN  /\ fileInfos' = updatedInfos
         /\ dataSourceIds' = DataSourceIdsOf(updatedInfos)
  /\ lastOp' = "session:handleSheetsChange"
  /\ UNCHANGED << clientVars, optionVars, pageVars >>
  /\ UNCHANGED << view, messages, loading, isStreaming, sessionDetail, sessionId,
                  initialPrompt, fileIds, sheetCalls, clock, turnVars,
                  streamVars, mounted, chartVars >>

\* the selection of file i is changed in the generate view (part_002
\* 281-299)
TokensGenerateChange(i, newSelectedSheets) ==
  /\ view = "tokens"
  /\ i \in 1..Len(fileInfos)
  /\ Len(newSelectedSheets) # 0
  /\ newSelectedSheets # fileInfos[i].selectedSheets
  /\ LET newInfos == [fileInfos EXCEPT ![i].selectedSheets = newSelectedSheets]
     IN  /\ fileInfos' = newInfos
         /\ fileIds' = GenerateDataSourceIds(AsGenerateInfos(newInfos))
  /\ lastOp' = "generate:handleSheetsChange"
  /\ UNCHANGED << clientVars, optionVars, pageVars >>
  /\ UNCHANGED << view, messages, loading, isStreaming, sessionDetail, sessionId,
                  initialPrompt, dataSourceIds, sheetCalls, clock, turnVars,
                  streamVars, mounted, chartVars >>

NextTokens ==
  \/ TokensRestore
  \/ \E i \in 1..Len(fileInfos) : \E newSheets \in TokenSelections :
       TokensSessionChange(i, newSheets)
  \/ \E i \in 1..Len(fileInfos) : \E newSelectedSheets \in TokenSelections :
       TokensGenerateChange(i, newSelectedSheets)

SpecTokens == InitTokens /\ [][NextTokens]_vars

(***************************************************************************)
(* The client identifier (api.ts 9-45) and the headers of every fetch of   *)
(* the service layer, on a browser profile that holds the identifier of an *)
(* earlier visit or none.                                                  *)
(***************************************************************************)
\* the identifier an earlier visit stored
StoredUUID == "uuid-0"

\* crypto.getRandomValues: the values generateUUID may return
generateUUID == {"uuid-1", "uuid-2"}

\* getClientId without localStorage.setItem
getClientId_NotStored(uuid) ==
  IF localStorage = << >> \/ ~Truthy(localStorage[1])
  THEN [clientId |-> uuid, localStorage |-> localStorage]
  ELSE [clientId |-> localStorage[1], localStorage |-> localStorage]

\* getClientId, when generateUUID would return uuid: what it returns and what
\* it leaves in localStorage
getClientId(uuid) ==
  IF localStorage = << >> \/ ~Truthy(localStorage[1])
  THEN [clientId |-> uuid, localStorage |-> << uuid >>]
  ELSE [clientId |-> localStorage[1], localStorage |-> localStorage]

getHeaders(uuid, includeContentType) ==
  [XClientID   |-> getClientId(uuid).clientId,
   ContentType |-> IF includeContentType THEN "application/json" ELSE Undefined]

InitClient ==
  /\ view = "client"
  /\ pc = "idle"
  /\ messages = << >>
  /\ loading = FALSE
  /\ isStreaming = FALSE
  /\ sessionDetail = Absent
  /\ sessionId = Undefined
  /\ initialPrompt = ""
  /\ fileInfos = << >>
  /\ dataSourceIds = << >>
  /\ fileIds = << >>
  /\ sheetCalls = << >>
  /\ turnKind = "send"
  /\ assistantMsgId = << >>
  /\ streamContent = ""
  /\ thrown = Undefined
  /\ requests = << >>
  /\ wire = << >>
  /\ closed = FALSE
  /\ held = << >>
  /\ buffer = << >>
  /\ events = << >>
  /\ sent = << >>
  /\ clock = 0
  /\ mounted = TRUE
  /\ NoCharts
  /\ localStorage \in {<< >>, << StoredUUID >>}
  /\ fetches = << >>
  /\ NoOption
  /\ NoPages
  /\ lastOp = "load"

\* fetch(url, {method, headers}) of the function api
Fetch(api, method, headers, uuid) ==
  /\ view = "client"
  /\ Len(fetches) < MaxFetches
  /\ fetches' = Append(fetches, [api |-> api, method |-> method, headers |-> headers])
  /\ localStorage' = getClientId(uuid).localStorage
  /\ lastOp' = api
  /\ UNCHANGED << viewVars, turnVars, streamVars, mounted, chartVars, optionVars,
                  pageVars >>

uploadFile ==
  \E uuid \in generateUUID :
    Fetch("uploadFile", "POST",
          [XClientID |-> getClientId(uuid).clientId, ContentType |-> Undefined], uuid)

switchSheet ==
  \E uuid \in generateUUID :
    Fetch("switchSheet", "POST", getHeaders(uuid, FALSE), uuid)

selectMultipleSheets ==
  \E uuid \in generateUUID :
    Fetch("selectMultipleSheets", "POST", getHeaders(uuid, TRUE), uuid)

getSessions ==
  \E uuid \in generateUUID :
    Fetch("getSessions", "GET", getHeaders(uuid, FALSE), uuid)

createSession ==
  \E uuid \in generateUUID :
    Fetch("createSession", "POST", getHeaders(uuid, TRUE), uuid)

getSessionDetail ==
  \E uuid \in generateUUID :
    Fetch("getSessionDetail", "GET", getHeaders(uuid, FALSE), uuid)

deleteSession ==
  \E uuid \in generateUUID :
    Fetch("deleteSession", "DELETE", getHeaders(uuid, FALSE), uuid)

deleteAllSessions ==
  \E uuid \in generateUUID :
    Fetch("deleteAllSessions", "DELETE", getHeaders(uuid, FALSE), uuid)

updateSessionFileMetadata ==
  \E uuid \in generateUUID :
    Fetch("updateSessionFileMetadata", "PUT", getHeaders(uuid, TRUE), uuid)

sendChatMessageStream ==
  \E uuid \in generateUUID :
    Fetch("sendChatMessageStream", "POST", getHeaders(uuid, TRUE), uuid)

getCharts ==
  \E uuid \in generateUUID :
    Fetch("getCharts", "GET", getHeaders(uuid, FALSE), uuid)

deleteChart ==
  \E uuid \in generateUUID :
    Fetch("deleteChart", "DELETE", getHeaders(uuid, FALSE), uuid)

NextClient ==
  \/ uploadFile
  \/ switchSheet
  \/ selectMultipleSheets
  \/ getSessions
  \/ createSession
  \/ getSessionDetail
  \/ deleteSession
  \/ deleteAllSessions
  \/ updateSessionFileMetadata
  \/ sendChatMessageStream
  \/ getCharts
  \/ deleteChart

SpecClient == InitClient /\ [][NextClient]_vars

(***************************************************************************)
(* MessageChart's effect that hands the configuration to the chart        *)
(* (ChatMessageList.tsx 53-103), on one chart and every configuration of   *)
(* ChartConfigs.  An object is a function on its keys; the values of       *)
(* grid.top, which the code tests with typeof, carry their type.           *)
(***************************************************************************)
Num(n) == [type |-> "number", n |-> n]
Str(str) == [type |-> "string", s |-> str]
NaN == [type |-> "NaN"]
undefined == [type |-> "undefined"]

\* key in o
Has(o, key) == key \in DOMAIN o

\* {...o, ...changes}
Spread(o, changes) ==
  [key \in DOMAIN o \cup DOMAIN changes |->
     IF key \in DOMAIN changes THEN changes[key] ELSE o[key]]

\* parseInt on the strings of GridTops
parseInt(str) ==
  CASE str = "10%" -> Num(10)
    [] str = "90%" -> Num(90)
    [] OTHER       -> NaN

\* a < b of a number or NaN a and a number b
LessThan(a, b) == a.type = "number" /\ a.n < b

MathMax(a, b) == IF a >= b THEN a ELSE b

\* the effect without the copy `{ ...config }`: it assigns to config itself
MessageChartEffect_NoCopy(cfg) ==
  LET grid == [top |-> Num(60), left |-> 60, right |-> 30, bottom |-> 60]
      safeConfig == IF Has(cfg, "radar") THEN cfg ELSE Spread(cfg, [grid |-> grid])
  IN  [config |-> safeConfig, safeConfig |-> safeConfig]

\* the effect body from the copy of config to setOption (ChatMessageList.tsx
\* 62-103): the object config is afterwards and the object given to setOption
MessageChartEffect(cfg) ==
  LET hasTitle     == /\ Has(cfg, "title")
                      /\ Has(cfg.title, "text")
                      /\ Truthy(cfg.title.text)
      hasLegend    == Has(cfg, "legend") /\ Has(cfg.legend, "data")
      isRadarChart == Has(cfg, "radar")
      afterRadar ==
        IF isRadarChart /\ hasLegend /\ Len(cfg.legend.data) > 3
        THEN Spread(cfg,
               [legend |-> Spread(cfg.legend,
                                  [orient |-> "vertical", left |-> 10, top |-> 50]),
                radar  |-> Spread(cfg.radar,
                                  [center |-> IF Has(cfg.radar, "center")
                                              THEN cfg.radar.center
                                              ELSE << "60%", "55%" >>,
                                   radius |-> IF Has(cfg.radar, "radius")
                                              THEN cfg.radar.radius
                                              ELSE "55%"])])
        ELSE cfg
      minTop1 == IF hasTitle /\ hasLegend THEN 80 ELSE 60
      minTop2 == IF hasTitle THEN MathMax(minTop1, 50) ELSE minTop1
      minTop  == IF hasLegend /\ ~isRadarChart /\ Len(cfg.legend.data) > 4
                 THEN 100 ELSE minTop2
      safeConfig ==
        IF isRadarChart THEN afterRadar
        ELSE IF ~Has(afterRadar, "grid")
        THEN Spread(afterRadar,
                    [grid |-> [top |-> Num(minTop), left |-> 60, right |-> 30,
                               bottom |-> 60]])
        ELSE LET grid == afterRadar.grid
                 top  == IF Has(grid, "top") THEN grid.top ELSE undefined
                 currentTop == IF top.type = "number" THEN top
                               ELSE IF top.type = "string" THEN parseInt(top.s)
                               ELSE Num(0)
             IN  IF LessThan(currentTop, minTop)
                 THEN Spread(afterRadar,
                             [grid |-> Spread(grid, [top |-> Num(minTop)])])
                 ELSE afterRadar
  IN  [config |-> cfg, safeConfig |-> safeConfig]

\* the values of grid.top a configuration may carry
GridTops == {Num(0), Num(59), Num(60), Num(79), Num(80), Num(99), Num(100),
             Num(120), Str("10%"), Str("90%"), Str("top")}

\* a key of a configuration: present with value v, or missing
Present(v) == [has |-> TRUE, v |-> v]
Missing == [has |-> FALSE, v |-> [missing |-> TRUE]]

TitleChoices == {Missing, Present([text |-> ""]), Present([text |-> "Totals"])}

LegendChoices ==
  {Missing, Present([bottom |-> 0])}
    \cup {Present([data |-> d, bottom |-> 0]) :
            d \in {<< >>, << "a", "b", "c" >>, << "a", "b", "c", "d" >>,
                   << "a", "b", "c", "d", "e" >>}}

RadarChoices ==
  {Missing, Present([indicator |-> << "x", "y", "z" >>]),
   Present([indicator |-> << "x", "y", "z" >>, center |-> << "50%", "50%" >>,
            radius |-> "70%"])}

GridChoices ==
  {Missing, Present([left |-> 10])}
    \cup {Present([top |-> t, left |-> 10]) : t \in GridTops}

\* the object with the keys of choices that are present
Object(choices) ==
  [key \in {k \in DOMAIN choices : choices[k].has} |-> choices[key].v]

\* the configurations a done frame may carry
ChartConfigs ==
  {Object([title |-> t, legend |-> l, radar |-> r, grid |-> g,
           series |-> Present(<< [type |-> "bar"] >>)]) :
     t \in TitleChoices, l \in LegendChoices, r \in RadarChoices,
     g \in GridChoices}

InitOption ==
  /\ view = "option"
  /\ pc = "idle"
  /\ messages = << >>
  /\ loading = FALSE
  /\ isStreaming = FALSE
  /\ sessionDetail = Absent
  /\ sessionId = Undefined
  /\ initialPrompt = ""
  /\ fileInfos = << >>
  /\ dataSourceIds = << >>
  /\ fileIds = << >>
  /\ sheetCalls = << >>
  /\ turnKind = "send"
  /\ assistantMsgId = << >>
  /\ streamContent = ""
  /\ thrown = Undefined
  /\ requests = << >>
  /\ wire = << >>
  /\ closed = FALSE
  /\ held = << >>
  /\ buffer = << >>
  /\ events = << >>
  /\ sent = << >>
  /\ clock = 0
  /\ mounted = TRUE
  /\ NoCharts
  /\ NoFetches
  /\ NoPages
  /\ configProp \in ChartConfigs
  /\ option = Absent
  /\ lastOp = "render"

\* the effect runs after the render
SetOption ==
  /\ view = "option"
  /\ lastOp = "render"
  /\ LET r == MessageChartEffect(configProp)
     IN  /\ configProp' = r.config
         /\ option' = r.safeConfig
  /\ lastOp' = "setOption"
  /\ UNCHANGED << viewVars, turnVars, streamVars, mounted, chartVars, clientVars,
                  pageVars >>

NextOption == SetOption

SpecOption == InitOption /\ [][NextOption]_vars

(***************************************************************************)
(* The multi-select SheetSelector (SheetSelector.tsx 30-62) of one         *)
(* workbook, under a parent that applies every selection it is given, and  *)
(* the guard of GeneratePage.handleSheetsChange.                           *)
(***************************************************************************)
SelectorSheets == << "S1", "S2", "S3", "S4" >>

\* the selections without duplicates of at least one sheet
SelectorSelections ==
  {sel \in UNION {[1..n -> {"S1", "S2", "S3", "S4"}] : n \in 1..4} :
     \A i, j \in 1..Len(sel) : sel[i] = sel[j] => i = j}

InitSelector ==
  /\ view = "selector"
  /\ pc = "idle"
  /\ \E sel \in SelectorSelections :
       fileInfos = << [file_id |-> "f1", filename |-> "a.xlsx",
                       sheet_names |-> SelectorSheets, selectedSheets |-> sel] >>
  /\ dataSourceIds = << >>
  /\ fileIds = << >>
  /\ messages = << >>
  /\ loading = FALSE
  /\ isStreaming = FALSE
  /\ sessionDetail = Absent
  /\ sessionId = "s1"
  /\ initialPrompt = ""
  /\ sheetCalls = << >>
  /\ turnKind = "send"
  /\ assistantMsgId = << >>
  /\ streamContent = ""
  /\ thrown = Undefined
  /\ requests = << >>
  /\ wire = << >>
  /\ closed = FALSE
  /\ held = << >>
  /\ buffer = << >>
  /\ events = << >>
  /\ sent = << >>
  /\ clock = 0
  /\ mounted = TRUE
  /\ NoCharts
  /\ NoFetches
  /\ NoOption
  /\ NoPages
  /\ lastOp = "mount"

\* the checkbox of a sheet is clicked: handleCheckboxChange, and the parent
\* applies the selection onChange is called with (SheetSelector.tsx 34-43 and
\* 54-55, SessionPage.tsx 142-147)
CheckboxChange(sheet) ==
  /\ view = "selector"
  /\ Includes(fileInfos[1].sheet_names, sheet)
  /\ LET newSheets == handleCheckboxChange(fileInfos[1].selectedSheets, sheet)
     IN  fileInfos' = IF newSheets = Undefined THEN fileInfos
                      ELSE [fileInfos EXCEPT ![1].selectedSheets = newSheets]
  /\ lastOp' = "checkbox:" \o sheet
  /\ UNCHANGED << clientVars, optionVars, pageVars >>
  /\ UNCHANGED << view, messages, loading, isStreaming, sessionDetail, sessionId,
                  initialPrompt, dataSourceIds, fileIds, sheetCalls, clock,
                  turnVars, streamVars, mounted, chartVars >>

\* the guard of GeneratePage.handleSheetsChange (part_002 272-273)
GenerateSheetsChangeIgnored(fileIndex, newSelectedSheets) ==
  fileIndex \notin 1..Len(fileInfos) \/ Len(newSelectedSheets) = 0

\* GeneratePage.handleSheetsChange is called with a selection its guard
\* rejects: it returns at once (part_002 271-273)
GenerateSheetsChangeReturns(fileIndex, newSelectedSheets) ==
  /\ view = "selector"
  /\ GenerateSheetsChangeIgnored(fileIndex, newSelectedSheets)
  /\ lastOp' = "handleSheetsChange:ignored"
  /\ UNCHANGED << clientVars, optionVars, pageVars >>
  /\ UNCHANGED << viewVars, turnVars, streamVars, mounted, chartVars >>

NextSelector ==
  \/ \E sheet \in {"S1", "S2", "S3", "S4"} : CheckboxChange(sheet)
  \/ \E newSelectedSheets \in {<< >>, << "S1" >>} :
       GenerateSheetsChangeReturns(1, newSelectedSheets)

SpecSelector == InitSelector /\ [][NextSelector]_vars

(***************************************************************************)
(* The file metadata GeneratePage stores with the session (part_002        *)
(* 116-125 and 315-327) and SessionPage.loadSession reads back             *)
(* (SessionPage.tsx 58-80): the generate view uploads up to two files,     *)
(* creates the session, changes sheet selections; the session is then      *)
(* opened in the session view.  sessionDetail is the session as the        *)
(* backend holds it.                                                       *)
(***************************************************************************)
\* what uploadFile may resolve with for the k-th file: a workbook with sheet
\* S1 selected, or a CSV file
RoundTripUploads ==
  UNION {[1..n -> {"workbook", "csv"}] : n \in 1..2}

UploadResultOf(k, kind) ==
  [file_id |-> IF k = 1 THEN "f1" ELSE "f2",
   filename |-> IF kind = "workbook" THEN "a.xlsx" ELSE "b.csv",
   rows |-> 2, columns |-> << "k", "v" >>,
   sheet_names |-> IF kind = "workbook" THEN << "S1", "S2" >> ELSE << >>,
   selected_sheet |-> IF kind = "workbook" THEN "S1" ELSE Undefined]

\* part_002 83-89
InfosOf(uploadResults) ==
  [i \in 1..Len(uploadResults) |->
     [file           |-> uploadResults[i].filename,
      uploadResult   |-> uploadResults[i],
      selectedSheets |-> IF Truthy(uploadResults[i].selected_sheet)
                         THEN << uploadResults[i].selected_sheet >>
                         ELSE << >>]]

\* fileMetadata that drops the selection
FileMetadataOf_NoSelection(infos) ==
  [i \in 1..Len(infos) |->
     [file_id         |-> infos[i].uploadResult.file_id,
      filename        |-> infos[i].uploadResult.filename,
      sheet_names     |-> infos[i].uploadResult.sheet_names,
      selected_sheets |-> << >>]]

\* const fileMetadata (part_002 117-122 and 317-322)
FileMetadataOf(infos) ==
  [i \in 1..Len(infos) |->
     [file_id         |-> infos[i].uploadResult.file_id,
      filename        |-> infos[i].uploadResult.filename,
      sheet_names     |-> infos[i].uploadResult.sheet_names,
      selected_sheets |-> infos[i].selectedSheets]]

\* the token set loadSession sets for a session detail (SessionPage.tsx
\* 58-80): none without file metadata
RestoredDataSourceIds(detail) ==
  IF Len(detail.file_metadata) > 0
  THEN DataSourceIdsOf(RestoredFileInfos(detail.file_metadata))
  ELSE << >>

InitRoundTrip ==
  /\ view = "roundtrip"
  /\ pc = "uploading"
  /\ fileInfos = << >>
  /\ dataSourceIds = << >>
  /\ fileIds = << >>
  /\ messages = << >>
  /\ loading = TRUE
  /\ isStreaming = FALSE
  /\ sessionDetail = Absent
  /\ sessionId = Undefined
  /\ initialPrompt = ""
  /\ sheetCalls = << >>
  /\ turnKind = "init"
  /\ assistantMsgId = << >>
  /\ streamContent = ""
  /\ thrown = Undefined
  /\ requests = << >>
  /\ wire = << >>
  /\ closed = FALSE
  /\ held = << >>
  /\ buffer = << >>
  /\ events = << >>
  /\ sent = << >>
  /\ clock = 0
  /\ mounted = TRUE
  /\ NoCharts
  /\ NoFetches
  /\ NoOption
  /\ NoPages
  /\ lastOp = "mount"

\* init: the uploads resolve and createSession stores the token set and the
\* file metadata (part_002 66-127)
RoundTripCreate(kinds) ==
  /\ view = "roundtrip"
  /\ pc = "uploading"
  /\ LET uploadResults == [k \in 1..Len(kinds) |-> UploadResultOf(k, kinds[k])]
         infos         == InfosOf(uploadResults)
     IN  /\ fileIds' = UploadDataSourceIds(uploadResults)
         /\ fileInfos' = infos
         /\ sessionDetail' = [file_ids      |-> UploadDataSourceIds(uploadResults),
                              file_metadata |-> FileMetadataOf(infos),
                              messages      |-> << >>]
  /\ sessionId' = "s2"
  /\ loading' = FALSE
  /\ pc' = "idle"
  /\ lastOp' = "createSession"
  /\ UNCHANGED << clientVars, optionVars, pageVars >>
  /\ UNCHANGED << view, messages, isStreaming, initialPrompt, dataSourceIds,
                  sheetCalls, clock, turnKind, assistantMsgId, streamContent,
                  thrown, requests, streamVars, mounted, chartVars >>

\* GeneratePage.handleSheetsChange with selectMultipleSheets resolving; the
\* metadata update is stored or fails (part_002 271-328)
RoundTripSheetsChange(fileIndex, newSelectedSheets, stored) ==
  /\ view = "roundtrip"
  /\ pc = "idle"
  /\ fileIndex \in 1..Len(fileInfos)
  /\ Len(fileInfos[fileIndex].uploadResult.sheet_names) > 1
  /\ ~GenerateSheetsChangeIgnored(fileIndex, newSelectedSheets)
  /\ newSelectedSheets # fileInfos[fileIndex].selectedSheets
  /\ LET newInfos == [fileInfos EXCEPT ![fileIndex].selectedSheets = newSelectedSheets]
     IN  /\ fileInfos' = newInfos
         /\ fileIds' = GenerateDataSourceIds(newInfos)
         /\ sessionDetail' =
              IF sessionId # Undefined /\ stored
              THEN [sessionDetail EXCEPT !.file_metadata = FileMetadataOf(newInfos)]
              ELSE sessionDetail
  /\ lastOp' = IF stored THEN "updateSessionFileMetadata"
               ELSE "updateSessionFileMetadata:failed"
  /\ UNCHANGED << clientVars, optionVars, pageVars >>
  /\ UNCHANGED << view, messages, loading, isStreaming, sessionId, initialPrompt,
                  dataSourceIds, sheetCalls, clock, turnVars, streamVars, mounted,
                  chartVars >>

\* the session is opened in the session view: loadSession (SessionPage.tsx
\* 52-80)
RoundTripRestore ==
  /\ view = "roundtrip"
  /\ pc = "idle"
  /\ IF Len(sessionDetail.file_metadata) > 0
     THEN /\ fileInfos' = RestoredFileInfos(sessionDetail.file_metadata)
          /\ dataSourceIds' =
               DataSourceIdsOf(RestoredFileInfos(sessionDetail.file_metadata))
     ELSE UNCHANGED << fileInfos, dataSourceIds >>
  /\ pc' = "restored"
  /\ lastOp' = "loadSession"
  /\ UNCHANGED << clientVars, optionVars, pageVars >>
  /\ UNCHANGED << view, messages, loading, isStreaming, sessionDetail, sessionId,
                  initialPrompt, fileIds, sheetCalls, clock, turnKind,
                  assistantMsgId, streamContent, thrown, requests, streamVars,
                  mounted, chartVars >>

NextRoundTrip ==
  \/ \E kinds \in RoundTripUploads : RoundTripCreate(kinds)
  \/ \E fileIndex \in 1..Len(fileInfos) :
       \E newSelectedSheets \in TokenSelections : \E stored \in BOOLEAN :
         RoundTripSheetsChange(fileIndex, newSelectedSheets, stored)
  \/ RoundTripRestore

SpecRoundTrip == InitRoundTrip /\ [][NextRoundTrip]_vars

(***************************************************************************)
(* HistoryPage (src/unnamed/part_003): the search box and the session      *)
(* list.  A getSessions call in flight is the search text it was made      *)
(* with; responses arrive in any order.                                    *)
(***************************************************************************)
\* the texts the search box may hold
SearchTexts == {"", "a", "ab"}

\* data.items of getSessions(1, 9, search): the sessions of the backend whose
\* title contains the text, all of them without text
SessionsMatching(search) ==
  CASE search = ""   -> << "s-a", "s-ab", "s-b" >>
    [] search = "a"  -> << "s-a", "s-ab" >>
    [] search = "ab" -> << "s-ab" >>

\* the page is mounted: the effect has called loadSessions(1) (part_003
\* 73-77)
InitHistory ==
  /\ view = "history"
  /\ pc = "idle"
  /\ messages = << >>
  /\ loading = FALSE
  /\ isStreaming = FALSE
  /\ sessionDetail = Absent
  /\ sessionId = Undefined
  /\ initialPrompt = ""
  /\ fileInfos = << >>
  /\ dataSourceIds = << >>
  /\ fileIds = << >>
  /\ sheetCalls = << >>
  /\ turnKind = "send"
  /\ assistantMsgId = << >>
  /\ streamContent = ""
  /\ thrown = Undefined
  /\ requests = << >>
  /\ wire = << >>
  /\ closed = FALSE
  /\ held = << >>
  /\ buffer = << >>
  /\ events = << >>
  /\ sent = << >>
  /\ clock = 0
  /\ mounted = TRUE
  /\ NoCharts
  /\ NoFetches
  /\ NoOption
  /\ files = << >>
  /\ searchQuery = ""
  /\ searchTimeoutRef = << >>
  /\ sessionsInFlight = << "" >>
  /\ sessions = << >>
  /\ sessionsLoading = TRUE
  /\ consoleErrors = 0
  /\ lastOp = "mount"

\* handleSearchChange (part_003 80-91): the timeout keeps the loadSessions of
\* the render the handler belongs to, whose searchQuery is the text before
\* the change; the render that follows gives loadSessions a new identity
\* (part_003 55), so the effect (part_003 74-77) calls loadSessions(1) with
\* the new text
handleSearchChange(value) ==
  /\ view = "history"
  /\ value # searchQuery
  /\ Len(sessionsInFlight) < MaxSessionRequests
  /\ searchQuery' = value
  /\ searchTimeoutRef' = << searchQuery >>
  /\ sessionsInFlight' = Append(sessionsInFlight, value)
  /\ sessionsLoading' = TRUE
  /\ lastOp' = "handleSearchChange"
  /\ UNCHANGED << viewVars, turnVars, streamVars, mounted, chartVars, clientVars,
                  optionVars, files, sessions, consoleErrors >>

\* the timeout set by handleSearchChange fires: loadSessions(1) up to its
\* await (part_003 88-90 and 42-45)
SearchTimeout ==
  /\ view = "history"
  /\ searchTimeoutRef # << >>
  /\ Len(sessionsInFlight) < MaxSessionRequests
  /\ sessionsInFlight' = Append(sessionsInFlight, searchTimeoutRef[1])
  /\ searchTimeoutRef' = << >>
  /\ sessionsLoading' = TRUE
  /\ lastOp' = "setTimeout"
  /\ UNCHANGED << viewVars, turnVars, streamVars, mounted, chartVars, clientVars,
                  optionVars, files, searchQuery, sessions, consoleErrors >>

\* the sequence without its k-th element
RemoveAt(seq, k) == SubSeq(seq, 1, k - 1) \o SubSeq(seq, k + 1, Len(seq))

\* getSessions resolves: loadSessions(1) after its await (part_003 46-54)
LoadSessionsDone(k) ==
  /\ view = "history"
  /\ k \in 1..Len(sessionsInFlight)
  /\ sessions' = SessionsMatching(sessionsInFlight[k])
  /\ sessionsInFlight' = RemoveAt(sessionsInFlight, k)
  /\ sessionsLoading' = FALSE
  /\ lastOp' = "getSessions"
  /\ UNCHANGED << viewVars, turnVars, streamVars, mounted, chartVars, clientVars,
                  optionVars, files, searchQuery, searchTimeoutRef, consoleErrors >>

\* getSessions rejects: the catch and finally blocks of loadSessions
\* (part_003 50-54)
LoadSessionsFailed(k) ==
  /\ view = "history"
  /\ k \in 1..Len(sessionsInFlight)
  /\ consoleErrors < MaxConsoleErrors
  /\ consoleErrors' = consoleErrors + 1
  /\ sessionsInFlight' = RemoveAt(sessionsInFlight, k)
  /\ sessionsLoading' = FALSE
  /\ lastOp' = "getSessions:failed"
  /\ UNCHANGED << viewVars, turnVars, streamVars, mounted, chartVars, clientVars,
                  optionVars, files, searchQuery, searchTimeoutRef, sessions >>

NextHistory ==
  \/ \E value \in SearchTexts : handleSearchChange(value)
  \/ SearchTimeout
  \/ \E k \in 1..Len(sessionsInFlight) : LoadSessionsDone(k)
  \/ \E k \in 1..Len(sessionsInFlight) : LoadSessionsFailed(k)

SpecHistory == InitHistory /\ [][NextHistory]_vars

(***************************************************************************)
(* HomePage (src/unnamed/part_004): the pending file list.  A File is its  *)
(* name and the directory it was picked from.                              *)
(***************************************************************************)
HomeFiles ==
  { [name |-> "a.xlsx", dir |-> "d1"], [name |-> "a.xlsx", dir |-> "d2"],
    [name |-> "b.csv", dir |-> "d1"], [name |-> "c.csv", dir |-> "d1"],
    [name |-> "d.csv", dir |-> "d2"] }

\* the FileLists the file input may report: one or two files
FileLists ==
  {fl \in UNION {[1..n -> HomeFiles] : n \in 1..2} :
     \A i, j \in 1..Len(fl) : fl[i] = fl[j] => i = j}

InitHome ==
  /\ view = "home"
  /\ pc = "idle"
  /\ messages = << >>
  /\ loading = FALSE
  /\ isStreaming = FALSE
  /\ sessionDetail = Absent
  /\ sessionId = Undefined
  /\ initialPrompt = ""
  /\ fileInfos = << >>
  /\ dataSourceIds = << >>
  /\ fileIds = << >>
  /\ sheetCalls = << >>
  /\ turnKind = "send"
  /\ assistantMsgId = << >>
  /\ streamContent = ""
  /\ thrown = Undefined
  /\ requests = << >>
  /\ wire = << >>
  /\ closed = FALSE
  /\ held = << >>
  /\ buffer = << >>
  /\ events = << >>
  /\ sent = << >>
  /\ clock = 0
  /\ mounted = TRUE
  /\ NoCharts
  /\ NoFetches
  /\ NoOption
  /\ files = << >>
  /\ searchQuery = ""
  /\ searchTimeoutRef = << >>
  /\ sessionsInFlight = << >>
  /\ sessions = << >>
  /\ sessionsLoading = FALSE
  /\ consoleErrors = 0
  /\ lastOp = "mount"

\* handleFilesChange (part_004 18-25)
handleFilesChange(newFiles) ==
  /\ view = "home"
  /\ Len(files) + Len(newFiles) <= MaxHomeFiles
  /\ LET existingNames  == {files[i].name : i \in 1..Len(files)}
         uniqueNewFiles == SelectSeq(newFiles, LAMBDA f : f.name \notin existingNames)
     IN  files' = files \o uniqueNewFiles
  /\ lastOp' = "handleFilesChange"
  /\ UNCHANGED << viewVars, turnVars, streamVars, mounted, chartVars, clientVars,
                  optionVars, searchQuery, searchTimeoutRef, sessionsInFlight, sessions,
                  sessionsLoading, consoleErrors >>

\* handleRemoveFile (part_004 27-29); index counts from 0
handleRemoveFile(index) ==
  /\ view = "home"
  /\ index \in 0..(Len(files) - 1)
  /\ files' = RemoveAt(files, index + 1)
  /\ lastOp' = "handleRemoveFile"
  /\ UNCHANGED << viewVars, turnVars, streamVars, mounted, chartVars, clientVars,
                  optionVars, searchQuery, searchTimeoutRef, sessionsInFlight, sessions,
                  sessionsLoading, consoleErrors >>

NextHome ==
  \/ \E newFiles \in FileLists : handleFilesChange(newFiles)
  \/ \E index \in 0..(MaxHomeFiles - 1) : handleRemoveFile(index)

SpecHome == InitHome /\ [][NextHome]_vars

(***************************************************************************)
(* Properties of the decoder (checked under SpecDecoder).                  *)
(***************************************************************************)
RECURSIVE BytesOf(_)
BytesOf(ls) == IF ls = << >> THEN << >> ELSE LineBytes(Head(ls)) \o BytesOf(Tail(ls))

\* the bytes the reader has read so far
Delivered == SubSeq(BytesOf(sent), 1, Len(BytesOf(sent)) - Len(wire))

\* the lines whose newline the reader has read
LinesRead == SubSeq(sent, 1, Len(sent) - InFlight(wire))

ChunkHi == [type |-> "chunk", content |-> "hi"]

\* C3: however the bytes read so far were cut into chunks, the callbacks made,
\* the buffer and the decoder's held bytes are those of reading the same bytes
\* as one chunk; a chunkHi frame alone, once read, has made exactly one
\* onChunk("hi") call.
C3_ChunkBoundariesDoNotMatter ==
  view = "harness" =>
    /\ LET one == DecodeChunk(<< >>, << >>, Delivered)
       IN  /\ events = one.events
           /\ buffer = one.buffer
           /\ held = one.held
    /\ (sent = << "chunkHi" >> /\ wire = << >>) => events = << ChunkHi >>

\* a second frame is cut inside a character after a first frame has been
\* decoded from an earlier chunk
C3_Witness ==
  /\ view = "harness"
  /\ lastOp = "ReaderRead"
  /\ events = << ChunkHi >>
  /\ held = << "0xC3" >>
  /\ Join(buffer) = "data: {\"type\":\"chunk\",\"content\":\""

\* what the claim expects of each line: the event of a valid frame, nothing
\* for a blank line, for text that is not JSON and for an unknown type
ExpectedOfLine(l) ==
  CASE l = "chunkHi" -> << ChunkHi >>
    [] l = "chunkE9" -> << [type |-> "chunk", content |-> "U+00E9"] >>
    [] l = "done"    -> << [type |-> "done", chartConfig |-> Absent] >>
    [] l \in {"blank", "notJson", "ping"} -> << >>

RECURSIVE ExpectedOf(_)
ExpectedOf(ls) ==
  IF ls = << >> THEN << >> ELSE ExpectedOfLine(Head(ls)) \o ExpectedOf(Tail(ls))

\* C4: the callbacks made are exactly those of the valid frames among the lines
\* read, in order, whatever blank, non-JSON and unknown-type lines stand
\* between them, and the read loop has not thrown; a blank line and a not-json
\* line between two valid frames give exactly two events.
C4_NoiseLinesAreDropped ==
  view = "harness" =>
    /\ events = ExpectedOf(LinesRead)
    /\ thrown = Undefined
    /\ (sent = << "chunkHi", "blank", "notJson", "done" >> /\ wire = << >>)
         => Len(events) = 2

C4_Witness ==
  /\ view = "harness"
  /\ sent = << "chunkHi", "blank", "notJson", "done" >>
  /\ wire = << >>
  /\ pc = "settled"
  /\ Len(events) = 2

(***************************************************************************)
(* Properties of the views (checked under Spec and FairSpec).              *)
(***************************************************************************)
\* the entries that are pending: written by the start of a turn or by
\* onChunk, while that turn's request and stream cycle is running
PendingAt == {i \in 1..Len(messages) : messages[i].isPending /\ Busy}

\* the entries that carry the id of the running (or last) turn's assistant
\* entry
TurnEntriesAt == {i \in 1..Len(messages) : messages[i].id = assistantMsgId}

IsTerminal(e) == e.type \in {"done", "error"}

\* the positions of the terminal events among those of the stream
TerminalsAt == {k \in 1..Len(events) : IsTerminal(events[k])}

\* the callbacks of the stream are chunks and then one terminal event
ChunksThenTerminal == TerminalsAt = {Len(events)} /\ Len(events) > 0

\* the concatenation of the chunks among the first k events
RECURSIVE ChunksUpTo(_)
ChunksUpTo(k) ==
  IF k = 0 THEN ""
  ELSE ChunksUpTo(k - 1) \o (IF events[k].type = "chunk" THEN events[k].content
                             ELSE "")

\* C1: in a session view at most one entry is pending and it is the last
\* entry of the transcript, whatever else appends to the transcript (the
\* confirmation message of a sheet selection included).
C1_OnePendingEntryAndItIsLast ==
  view = "session" => /\ Cardinality(PendingAt) <= 1
                      /\ PendingAt \subseteq {Len(messages)}

\* C2: a handleSend call made while a turn's request is outstanding or its
\* stream is being read is rejected, and the rejected call changes nothing:
\* not the transcript, not the requests issued, not the running turn and not
\* its stream.
C2_BusySendIsRejected ==
  [][(pc \in {"fetching", "streaming"}
      /\ lastOp' \in {"handleSend", "handleSend:rejected"})
     => (lastOp' = "handleSend:rejected"
         /\ UNCHANGED << viewVars, turnVars, streamVars >>)]_vars

C2_Witness ==
  /\ view = "session"
  /\ lastOp = "handleSend:rejected"
  /\ pc = "streaming"
  /\ isStreaming
  /\ events = << [type |-> "chunk", content |-> "Here"] >>
  /\ Len(requests) = 1

\* C5: when the stream of a turn has delivered chunks and then one done
\* frame and no read has failed, the turn's assistant entry has the chunks' concatenation in their
\* order as content and the done frame's chart_config as chartConfig and is
\* not pending, and it is the last entry when the read that delivered the
\* done frame returns.
C5_ChunksThenDoneFillTheEntry ==
  (view \in {"session", "generate"} /\ ChunksThenTerminal
   /\ events[Len(events)].type = "done" /\ thrown = Undefined)
  => /\ TurnEntriesAt # {}
     /\ \A i \in TurnEntriesAt :
          /\ messages[i].content = ChunksUpTo(Len(events))
          /\ messages[i].chartConfig = events[Len(events)].chartConfig
          /\ ~messages[i].isPending
     /\ lastOp = "ReaderRead" => Len(messages) \in TurnEntriesAt

\* C6: after chunks and exactly one terminal event (done or error) of a
\* turn, no entry of the transcript is pending.
C6_NoPendingAfterTerminal ==
  (view \in {"session", "generate"} /\ ChunksThenTerminal) => PendingAt = {}

\* what the first terminal event of the stream wrote into the entry
TerminalContent(k) ==
  IF events[k].type = "done" THEN ChunksUpTo(k)
  ELSE FailedPrefix \o events[k].error

TerminalChartConfig(k) ==
  IF events[k].type = "done" THEN events[k].chartConfig ELSE Absent

\* C7: once a done or error event has been applied to the turn's assistant
\* entry, the frames the same stream delivers later leave it alone: while
\* the stream is read, an entry of the turn has the content and chartConfig
\* the first terminal event gave it.
C7_NoChangeAfterTerminal ==
  (view \in {"session", "generate"} /\ pc = "streaming" /\ TerminalsAt # {})
  => LET k == CHOOSE j \in TerminalsAt : \A l \in TerminalsAt : j <= l
     IN  \E i \in TurnEntriesAt :
           /\ messages[i].content = TerminalContent(k)
           /\ messages[i].chartConfig = TerminalChartConfig(k)

\* the texts a failure message can carry
ErrorTexts == FetchErrors \cup {ReadError, "boom", UnknownError}

\* a turn was started and has failed, by an error frame or by an exception,
\* and its cycle is over
TurnFailed ==
  /\ view \in {"session", "generate"}
  /\ pc = "idle"
  /\ Len(requests) > 0
  /\ thrown # Undefined \/ \E k \in 1..Len(events) : events[k].type = "error"

\* C8: a failed turn ends with exactly one assistant entry of the turn; its
\* text begins with the one failure prefix, whether the turn was the initial
\* turn of the generate view or a follow-up turn and whether it failed by an
\* error frame or an exception; no further entry was added for the failure
\* and no entry is left as the turn's start wrote it.
C8_OneFailureEntryWithOnePrefix ==
  TurnFailed
  => /\ Cardinality(TurnEntriesAt) = 1
     /\ \A i \in TurnEntriesAt :
          /\ \E e \in ErrorTexts : messages[i].content = SendFailedPrefix \o e
          /\ ~messages[i].isPending
     /\ \A i \in 1..Len(messages) : messages[i].id # LitId("error")

\* C9: a follow-up turn that failed in transport (fetch rejected, the status
\* was not ok, the response had no body, a read failed) ends like one that
\* received an error frame: the turn's assistant entry, and only it, carries
\* the formatted failure message in place of its content, nothing is left
\* pending, and the one request of the turn was not issued again.
C9_TransportFailureIsAnError ==
  (view \in {"session", "generate"} /\ turnKind = "send" /\ pc = "idle"
   /\ thrown # Undefined)
  => /\ TurnEntriesAt # {}
     /\ \A i \in TurnEntriesAt :
          /\ messages[i].content = SendFailedPrefix \o thrown
          /\ messages[i].chartConfig = Absent
          /\ ~messages[i].isPending
     /\ \A i \in 1..Len(messages) :
          messages[i].content = SendFailedPrefix \o thrown => i \in TurnEntriesAt
     /\ Len(requests) = 1

\* C10: whenever the request and stream cycle of a turn has settled (the
\* stream ended, after a done frame, an error frame or neither, or an
\* exception was thrown), the input surface is enabled again later.
C10_SettledLeadsToEnabled ==
  (view \in {"session", "generate"} /\ pc = "settled") ~> ~InputDisabled

C10_Witness ==
  /\ view = "session"
  /\ lastOp = "handleSend:settle"
  /\ thrown = ReadError
  /\ ~InputDisabled
  /\ \E k \in 1..Len(events) : events[k].type = "chunk"


C12_NoReadAfterTeardown ==
  mounted \/ lastOp # "ReaderRead"


(***************************************************************************)
(* Properties of a mounted view, continued (checked under Spec).           *)
(***************************************************************************)
\* C13: a view has at most one request and stream cycle at a time: a request
\* is issued only when none is outstanding and no stream is being consumed;
\* and whenever a request is outstanding or its stream is being consumed the
\* input surface is disabled.
C13_OneCycleAndInputDisabled ==
  /\ [](Busy => InputDisabled)
  /\ [][requests' # requests => ~Busy]_vars

\* the stream of a follow-up turn is being consumed: one event has been
\* applied and the input is disabled
C13_Witness ==
  /\ pc = "streaming"
  /\ turnKind = "send"
  /\ Len(events) > 0
  /\ InputDisabled


\* C14: once the done or error event of a turn has been applied, the view
\* becomes idle (its input enabled, a new turn can start) without anything
\* more from the byte source: only the queued continuations of the view are
\* required to run, not a further read and not the end of the stream.
C14_TerminalLeadsToIdle ==
  (view \in {"session", "generate"} /\ pc = "streaming" /\ TerminalsAt # {})
    ~> ~InputDisabled


\* the fields of an entry the transcript shows
Shown(m) == << m.id, m.role, m.content, m.chartConfig >>

\* entry i is the assistant entry of the turn in flight
InFlightEntry(i) == Busy /\ messages[i].id = assistantMsgId

\* C15: in a session view the transcript is append-only outside the entry of
\* the turn in flight: the start of a turn appends exactly two entries, and
\* every step leaves each other entry at its position with its id, role,
\* content and chartConfig; no entry is removed or reordered.
C15_AppendOnlyOutsideInFlightEntry ==
  [][view = "session"
     => /\ lastOp' = "handleSend" => Len(messages') = Len(messages) + 2
        /\ \A i \in 1..Len(messages) :
             ~InFlightEntry(i)
             => /\ i <= Len(messages')
                /\ Shown(messages'[i]) = Shown(messages[i])]_vars


(***************************************************************************)
(* Properties of the chart registry (checked under SpecList).              *)
(***************************************************************************)
\* the entries whose MessageChart is mounted
ChartIds == {chartInstanceRef[i].messageId : i \in 1..Len(chartInstanceRef)}

\* the instances created for entry id, and those of them not disposed
CreatedFor(id) == {h \in 1..Len(instances) : instances[h].messageId = id}

LiveFor(id) == {h \in CreatedFor(id) : instances[h].disposed = 0}

\* C16: when a chart is registered again for an entry that already has one
\* (the entry is rendered again and still has a chartConfig), the existing
\* handle is kept and updated in place: it is not disposed and no second
\* handle is created for the entry.
C16_ReRegisterKeepsTheHandle ==
  [][\A id \in ChartIds :
       (mounted' /\ ShowsChart(messages', id))
       => /\ MapHas(chartInstanceRef', id)
          /\ MapGet(chartInstanceRef', id).current
               = MapGet(chartInstanceRef, id).current
          /\ instances'[MapGet(chartInstanceRef, id).current].disposed = 0]_vars


\* the entries the list displays with a chart
DisplayedCharts ==
  IF mounted
  THEN {messages[i].id : i \in {j \in 1..Len(messages) :
                                  messages[j].chartConfig # Absent}}
  ELSE {}

LiveHandles ==
  {chartInstanceRef[i].current : i \in 1..Len(chartInstanceRef)} \ {Null}

DisposedHandles == {h \in 1..Len(instances) : instances[h].disposed > 0}

\* C18: once the view is torn down every handle that was created has been
\* disposed exactly once and the registry is empty; and at all times every
\* created handle is either live or disposed once, never both:
\* created = disposed + live.
C18_EveryHandleDisposedOnce ==
  /\ ~mounted => /\ chartInstancesRef = << >>
                 /\ \A h \in 1..Len(instances) : instances[h].disposed = 1
  /\ \A h \in 1..Len(instances) : instances[h].disposed <= 1
  /\ LiveHandles \cap DisposedHandles = {}
  /\ Len(instances) = Cardinality(DisposedHandles) + Cardinality(LiveHandles)

\* a view torn down after four handles were created: three charts, one of
\* them created twice
C18_Witness ==
  /\ ~mounted
  /\ lastOp = "teardown"
  /\ Len(instances) = 4


\* C19: exportAllCharts takes a snapshot of the registry and schedules
\* exactly one export per record, the i-th (counting from 0) at i * 300 ms,
\* in registration order (0, 300, 600 for three charts), and the exports of
\* one call run in that order; with an empty registry it schedules nothing
\* and only reports that there is nothing to export.
C19_OneExportPerRecordEvery300ms ==
  [][/\ lastOp' = "exportAllCharts"
        => IF chartInstancesRef = << >>
           THEN timers' = timers /\ alerts' = alerts + 1
           ELSE /\ alerts' = alerts
                /\ Len(timers') = Len(timers) + Len(chartInstancesRef)
                /\ SubSeq(timers', 1, Len(timers)) = timers
                /\ \A i \in 1..Len(chartInstancesRef) :
                     LET t == timers'[Len(timers) + i]
                     IN  /\ t.item = chartInstancesRef[i]
                         /\ t.delay = (i - 1) * 300
                         /\ t.state = "pending"
                         /\ \A j \in 1..(i - 1) :
                              chartInstancesRef[j].instance < t.item.instance
     /\ lastOp' = "exportTimer"
        => \E k \in 1..Len(timers) :
             /\ timers[k].state = "pending"
             /\ timers'[k].state # "pending"
             /\ \A j \in 1..Len(timers) :
                  /\ j # k => timers'[j] = timers[j]
                  /\ (timers[j].call = timers[k].call
                      /\ timers[j].delay < timers[k].delay)
                     => timers[j].state # "pending"]_vars

\* three charts were registered, exportAllCharts scheduled three exports at
\* 0, 300 and 600 ms, and all three have run
C19_Witness ==
  /\ Len(timers) = 3
  /\ << timers[1].delay, timers[2].delay, timers[3].delay >> = << 0, 300, 600 >>
  /\ \A k \in 1..3 : timers[k].state = "exported"


\* C20: no export that exportAllCharts scheduled runs against a handle that
\* was disposed between the call and the firing of the export's timer.
C20_NoExportOnDisposedHandle ==
  \A k \in 1..Len(timers) : timers[k].state # "exportedDisposed"


\* the ids of the entries of the transcript
EntryIds == {messages[i].id : i \in 1..Len(messages)}

\* C21: unregistering an entry id that was never registered, or
\* unregistering the same id a second time, changes nothing: after the
\* first cleanup of a chart a second cleanup leaves the registry's records,
\* the handles the charts hold and every handle's dispose count as they are,
\* and handleInstanceDestroy of an id without record leaves the registry as
\* it is.
C21_UnregisterTwiceOrUnknownIsNoOp ==
  LET cs == ChartState(chartInstancesRef, instances, chartInstanceRef)
  IN  /\ \A id \in EntryIds :
           ~MapHas(chartInstancesRef, id)
           => handleInstanceDestroy(chartInstancesRef, id) = chartInstancesRef
      /\ \A id \in ChartIds :
           LET once == EffectCleanup(cs, id)
           IN  /\ EffectCleanup(once, id) = once
               /\ \A h \in 1..Len(once.inst) : once.inst[h].disposed <= 1

\* two charts are registered, an entry without chart was never registered,
\* and a cleanup has already disposed one handle
C21_Witness ==
  /\ mounted
  /\ Len(chartInstancesRef) >= 2
  /\ \E id \in EntryIds : ~MapHas(chartInstancesRef, id)
  /\ \E h \in 1..Len(instances) : instances[h].disposed = 1


(***************************************************************************)
(* Properties of the token set (checked under SpecTokens and Spec).        *)
(***************************************************************************)
\* the tokens of one file: one per selected sheet in selection order, or the
\* file id alone
TokensOfFile(file_id, selectedSheets) ==
  IF Len(selectedSheets) = 0 THEN << file_id >>
  ELSE [k \in 1..Len(selectedSheets) |-> file_id \o ":" \o selectedSheets[k]]

\* the concatenation of the per-file token lists of the first n files
RECURSIVE TokensOfFirst(_, _)
TokensOfFirst(infos, n) ==
  IF n = 0 THEN << >>
  ELSE TokensOfFirst(infos, n - 1)
       \o TokensOfFile(infos[n].file_id, infos[n].selectedSheets)

\* C22: every place that builds the token set computes the same function of
\* the file-selection list: for each file in file order one token
\* fileId:sheet per selected sheet in selection order, or the token fileId
\* when no sheet is selected; a file with N >= 1 selected sheets contributes
\* exactly N tokens.
C22_BuildersComputeTheSameTokens ==
  view = "tokens"
  => /\ lastOp \in {"loadSession", "session:handleSheetsChange"}
        => dataSourceIds = TokensOfFirst(fileInfos, Len(fileInfos))
     /\ lastOp = "generate:handleSheetsChange"
        => fileIds = TokensOfFirst(fileInfos, Len(fileInfos))
     /\ DataSourceIdsOf(fileInfos) = GenerateDataSourceIds(AsGenerateInfos(fileInfos))

\* three files with 0, 1 and 2 selected sheets, the third just changed in
\* the generate view: four tokens
C22_Witness ==
  /\ view = "tokens"
  /\ lastOp = "generate:handleSheetsChange"
  /\ Len(fileInfos) = 3
  /\ fileInfos[1].selectedSheets = << >>
  /\ fileInfos[2].selectedSheets = << "S2" >>
  /\ fileInfos[3].selectedSheets = << "S2", "S1" >>
  /\ fileIds = << "f1", "f2:S2", "f3:S2", "f3:S1" >>


\* the token set recomputed from the view's file-selection list
RECURSIVE TokensOfView(_)
TokensOfView(n) ==
  IF n = 0 THEN << >>
  ELSE TokensOfView(n - 1)
       \o TokensOfFile(FileIdOf(fileInfos[n]), fileInfos[n].selectedSheets)

\* the token set the view holds
TokenSet == IF view = "session" THEN dataSourceIds ELSE fileIds

\* C23: after any sequence of sheet-selection actions, whenever the view has
\* a file-selection list its token set equals the full recomputation of the
\* token set from that list: the token set never lags behind the selection.
C23_TokenSetFollowsSelection ==
  (view \in {"session", "generate"} /\ Len(fileInfos) > 0)
  => TokenSet = TokensOfView(Len(fileInfos))

\* a second sheet was selected in the generate view and the selection has
\* been applied
C23_Witness ==
  /\ view = "generate"
  /\ lastOp = "selectMultipleSheets"
  /\ fileInfos[1].selectedSheets = << "S1", "S2" >>
  /\ fileIds = << "f1:S1", "f1:S2" >>


\* C24: a failure of a backend call made for a sheet-selection action
\* (select-sheets or the file-metadata update) is only logged: the view's
\* selection and token set hold the newly chosen sheets, and no text is
\* added to the transcript, in the session view and in the generate view.
C24_SheetCallFailureIsIgnored ==
  [][/\ lastOp' = "selectMultipleSheets:failed"
        => \E k \in 1..Len(sheetCalls) :
             /\ sheetCalls[k].pc = "selecting"
             /\ sheetCalls'[k].pc # "selecting"
             /\ fileInfos'[sheetCalls[k].fileIndex].selectedSheets
                  = sheetCalls[k].newSheets
             /\ TokenSet' = TokensOfView(Len(fileInfos))'
             /\ messages' = messages
     /\ lastOp' = "updateSessionFileMetadata"
        => /\ fileInfos' = fileInfos
           /\ TokenSet' = TokenSet
           /\ messages' = messages]_vars


(***************************************************************************)
(* Properties of the decoder on every kind of frame (checked under         *)
(* SpecFrames).                                                            *)
(***************************************************************************)
\* the frames written with their newline
TerminatedSent == SelectSeq(sent, LAMBDA l : l \notin TailLines)

\* the frames whose newline the reader has read
FramesRead == SubSeq(TerminatedSent, 1, Len(TerminatedSent) - InFlight(wire))

\* the event the claim gives each frame object
EventOfFrame(l) ==
  CASE l = "chunkHere" -> << [type |-> "chunk", content |-> "Here"] >>
    [] l \in {"chunkEmpty", "chunkNoContent"} -> << >>
    [] l = "doneTotals" -> << [type |-> "done", chartConfig |-> CfgTotals] >>
    [] l \in {"done", "doneNull"} -> << [type |-> "done", chartConfig |-> Absent] >>
    [] l = "errorBoom" -> << [type |-> "error", error |-> "boom"] >>
    [] l \in {"errorNoMessage", "errorEmpty"}
         -> << [type |-> "error", error |-> UnknownError] >>

RECURSIVE EventsOfFrames(_)
EventsOfFrames(ls) ==
  IF ls = << >> THEN << >> ELSE EventOfFrame(Head(ls)) \o EventsOfFrames(Tail(ls))

\* C25: a frame object of type chunk with non-empty content gives
\* Chunk(content) and with empty or missing content no event; type done
\* gives Done(chart_config), Done(none) when chart_config is missing or
\* null; type error gives Error(message), with the default text when message
\* is missing or empty.
C25_FrameObjectToEvent ==
  view = "frames" => events = EventsOfFrames(FramesRead)

\* an empty chunk, a done frame with a null chart_config and an error frame
\* without message have been read: two events
C25_Witness ==
  /\ view = "frames"
  /\ sent = << "chunkEmpty", "doneNull", "errorNoMessage" >>
  /\ wire = << >>
  /\ events = << [type |-> "done", chartConfig |-> Absent],
                 [type |-> "error", error |-> UnknownError] >>

\* C26: when the body ends, what is left in the buffer is discarded without
\* being parsed: a last frame without its newline gives no event; and the
\* buffer never holds more than the one incomplete trailing line.
C26_BufferDiscardedAtEndOfStream ==
  view = "frames"
  => /\ \A i \in 1..Len(buffer) : buffer[i] # NL
     /\ pc = "settled" => events = EventsOfFrames(TerminatedSent)

\* the body ended with a done frame without newline after a chunk frame: the
\* done frame is in the buffer and only the chunk gave an event
C26_Witness ==
  /\ view = "frames"
  /\ pc = "settled"
  /\ sent = << "chunkHere", "tailDoneTotals" >>
  /\ buffer = LineText("tailDoneTotals")
  /\ events = << [type |-> "chunk", content |-> "Here"] >>


(***************************************************************************)
(* Property of the client identifier (checked under SpecClient).           *)
(***************************************************************************)
\* C27: the client identifier is stable: every fetch of the service layer
\* carries an X-Client-ID header, the header has the same value in all of
\* them (the one in storage), and an identifier is generated only when
\* storage holds none.
C27_ClientIdStable ==
  [][/\ \A i \in 1..Len(fetches') :
          /\ fetches'[i].headers.XClientID \in generateUUID \cup {StoredUUID}
          /\ fetches'[i].headers.XClientID = fetches'[1].headers.XClientID
          /\ localStorage' = << fetches'[i].headers.XClientID >>
     /\ localStorage' # localStorage => localStorage = << >>]_vars

\* on a profile without identifier an upload and a turn request have been
\* sent, in either order: both carry the identifier generated by the first
C27_Witness ==
  /\ view = "client"
  /\ localStorage = << "uuid-2" >>
  /\ Len(fetches) = 2
  /\ {fetches[1].api, fetches[2].api} = {"uploadFile", "sendChatMessageStream"}
  /\ fetches[1].headers.XClientID = "uuid-2"
  /\ fetches[2].headers.XClientID = "uuid-2"


(***************************************************************************)
(* Properties of the requests of the turns (checked under Spec).           *)
(***************************************************************************)
\* C28: the request of a turn carries as file_ids the token set current when
\* the turn starts: with a file-selection list, the tokens of the selection
\* as it stands (a sheet change applied before is reflected); in the session
\* view the file_ids stored with the session are used only when the token
\* set is empty.
C28_TurnCarriesCurrentTokenSet ==
  [][requests' # requests
     => LET r == requests'[Len(requests')]
        IN  /\ TokenSet # << >> => r.file_ids = TokenSet
            /\ Len(fileInfos) > 0 => r.file_ids = TokensOfView(Len(fileInfos))
            /\ view = "generate" => r.file_ids = TokenSet
            /\ (view = "session" /\ TokenSet = << >>)
                 => r.file_ids = sessionDetail.file_ids]_vars

\* a turn was started in the session view after sheet S2 had been added to
\* the selection: its request carries both sheet tokens, not the stored one
C28_Witness ==
  /\ view = "session"
  /\ lastOp = "handleSend"
  /\ sessionDetail # Absent
  /\ sessionDetail.file_ids = << "f1:S1" >>
  /\ requests[Len(requests)].file_ids = << "f1:S1", "f1:S2" >>

\* a turn was started in the session view on a session without file
\* metadata: its request carries the stored file_ids
C28_WitnessStored ==
  /\ view = "session"
  /\ lastOp = "handleSend"
  /\ dataSourceIds = << >>
  /\ requests[Len(requests)].file_ids = << "f1" >>


\* C29: no turn starts between a local selection change and the completion
\* of its select-sheets call: when a turn's request is sent, no
\* handleSheetsChange call is awaiting selectMultipleSheets, so the request
\* carries no sheet token whose data the backend has not loaded.
C29_NoTurnWhileSelectSheetsPending ==
  [][requests' # requests
     => \A k \in 1..Len(sheetCalls) : sheetCalls[k].pc # "selecting"]_vars

\* C30: the entries of the transcript have pairwise distinct ids.
C30_TranscriptIdsDistinct ==
  \A i, j \in 1..Len(messages) : messages[i].id = messages[j].id => i = j


(***************************************************************************)
(* The end of the response body without done or error frame (checked under *)
(* FairSpec).                                                              *)
(***************************************************************************)
\* the concatenation of the chunks among the events es
RECURSIVE ChunksOf(_)
ChunksOf(es) ==
  IF es = << >> THEN ""
  ELSE (IF Head(es).type = "chunk" THEN Head(es).content ELSE "") \o ChunksOf(Tail(es))

\* the body has ended, no done or error frame was decoded, the continuation
\* of the turn is queued
EndedWithoutTerminal ==
  /\ view \in {"session", "generate"}
  /\ pc = "settled"
  /\ Len(requests) > 0
  /\ thrown = Undefined
  /\ TerminalsAt = {}

\* C31: when the body ends without any done or error frame having been
\* decoded the turn still settles: its continuation runs and clears the
\* in-flight flag, writes nothing to the transcript (no failure message), and
\* the assistant entry of the turn holds exactly the concatenation of the
\* chunks received, without chartConfig.
C31_EndOfStreamWithoutTerminalSettles ==
  /\ EndedWithoutTerminal ~> (pc = "idle" /\ ~InputDisabled)
  /\ [][(EndedWithoutTerminal /\ pc' = "idle")
         => /\ messages' = messages
            /\ ~isStreaming' /\ ~loading'
            /\ \E i \in 1..Len(messages') : messages'[i].id = assistantMsgId
            /\ \A i \in 1..Len(messages') :
                  messages'[i].id = assistantMsgId
                  => /\ messages'[i].content = ChunksOf(events)
                     /\ messages'[i].chartConfig = Absent]_vars


(***************************************************************************)
(* Properties of the configuration handed to the chart (checked under      *)
(* SpecOption).                                                            *)
(***************************************************************************)
\* the number of legend items of a configuration, 0 without legend data
LegendItems(cfg) ==
  IF Has(cfg, "legend") /\ Has(cfg.legend, "data") THEN Len(cfg.legend.data) ELSE 0

\* the minimum the claim gives a configuration
MinimumTop(cfg) ==
  IF LegendItems(cfg) > 4 THEN 100
  ELSE IF /\ Has(cfg, "title") /\ Has(cfg.title, "text") /\ cfg.title.text # ""
          /\ Has(cfg, "legend") /\ Has(cfg.legend, "data")
       THEN 80
  ELSE 60

\* a grid.top that is at least m: a number, or a string read as the code
\* reads it
AtLeast(top, m) ==
  \/ top.type = "number" /\ top.n >= m
  \/ top.type = "string" /\ parseInt(top.s).type = "number" /\ parseInt(top.s).n >= m

\* C32: for a configuration without radar the option given to the chart has
\* grid.top >= m (m = 100 with more than 4 legend items, else 80 with title
\* text and legend data, else 60); a numeric grid.top >= m is applied
\* unchanged, a smaller or absent one becomes exactly m; with radar the grid
\* is neither added nor changed.
C32_GridTopAtLeastMinimum ==
  (view = "option" /\ lastOp = "setOption")
  => LET m == MinimumTop(configProp)
     IN  IF Has(configProp, "radar")
         THEN /\ Has(option, "grid") = Has(configProp, "grid")
              /\ Has(configProp, "grid") => option.grid = configProp.grid
         ELSE /\ Has(option, "grid") /\ Has(option.grid, "top")
              /\ AtLeast(option.grid.top, m)
              /\ IF /\ Has(configProp, "grid") /\ Has(configProp.grid, "top")
                    /\ configProp.grid.top.type = "number"
                    /\ configProp.grid.top.n >= m
                 THEN option.grid = configProp.grid
                 ELSE (~Has(configProp, "grid")
                       \/ ~Has(configProp.grid, "top")
                       \/ configProp.grid.top.type = "number")
                      => option.grid.top = Num(m)

\* C33: the effect leaves the chartConfig of the entry as it was, and the
\* option it gives the chart has the keys of the configuration (and grid),
\* each with the configuration's value, except grid and, with radar, legend
\* and radar.
C33_OnlyGridLegendRadarChange ==
  [][lastOp' = "setOption"
     => /\ configProp' = configProp
        /\ DOMAIN option' \ {"grid"} = DOMAIN configProp \ {"grid"}
        /\ \A key \in DOMAIN configProp :
              key \notin ({"grid"} \cup (IF Has(configProp, "radar")
                                        THEN {"legend", "radar"} ELSE {}))
              => option'[key] = configProp[key]]_vars

\* a radar configuration with five legend items and a grid has been given to
\* the chart: legend and radar were rewritten, title and series were not
C33_Witness ==
  /\ view = "option"
  /\ lastOp = "setOption"
  /\ Has(configProp, "radar") /\ Has(configProp, "title") /\ Has(configProp, "grid")
  /\ LegendItems(configProp) = 5
  /\ option.legend # configProp.legend
  /\ option.radar # configProp.radar
  /\ option.title = configProp.title
  /\ option.series = configProp.series


(***************************************************************************)
(* Property of the sheet selector (checked under SpecSelector).            *)
(***************************************************************************)
\* the selection of the workbook
Selected == fileInfos[1].selectedSheets

\* C34: from a non-empty selection without duplicates, every selection the
\* multi-select selector emits is non-empty and without duplicates,
\* unchecking the only selected sheet emits nothing, and the generate view
\* ignores an empty selection.
C34_SelectionNonEmptyNoDuplicates ==
  [][/\ Len(Selected') > 0
     /\ \A i, j \in 1..Len(Selected') : Selected'[i] = Selected'[j] => i = j
     /\ (Len(Selected) = 1 /\ lastOp' = "checkbox:" \o Selected[1])
          => Selected' = Selected
     /\ GenerateSheetsChangeIgnored(1, << >>)
     /\ lastOp' = "handleSheetsChange:ignored" => fileInfos' = fileInfos]_vars

\* the only selected sheet was unchecked: it is still selected
C34_Witness ==
  /\ view = "selector"
  /\ Selected = << "S2" >>
  /\ lastOp = "checkbox:S2"


(***************************************************************************)
(* Property of the stored file metadata (checked under SpecRoundTrip).     *)
(***************************************************************************)
\* C35: whenever the generate view stores file metadata with the session
\* (at its creation or after a sheet change), the token set the session view
\* rebuilds from that metadata equals, in the same order, the token set the
\* generate view holds at that moment; and the session view, opening the
\* session, sets the token set rebuilt from what is stored.
C35_RestoredTokensEqualPersisted ==
  [][/\ (sessionDetail' # sessionDetail)
          => RestoredDataSourceIds(sessionDetail') = fileIds'
     /\ (lastOp' = "loadSession")
          => dataSourceIds' = RestoredDataSourceIds(sessionDetail)]_vars

\* a workbook and a CSV file were uploaded, sheets S2 and S1 were selected in
\* that order and stored; the session view rebuilt the same token set
C35_Witness ==
  /\ view = "roundtrip"
  /\ lastOp = "loadSession"
  /\ fileIds = << "f1:S2", "f1:S1", "f2" >>
  /\ dataSourceIds = fileIds


(***************************************************************************)
(* The order of the steps of GeneratePage.init (checked under Spec).       *)
(***************************************************************************)
\* init is over and has set no session id: an upload or createSession failed
InitFailed ==
  /\ view = "generate"
  /\ pc \notin {"uploading", "creating"}
  /\ sessionId = Undefined

\* C36: in the generate view createSession is called only after the uploads
\* have succeeded, the request of the initial turn is sent only after the
\* session was created and only with a non-empty initial prompt, and after a
\* failed upload or createSession no turn request is ever sent: the session
\* id stays unset and handleSend rejects.
C36_InitStepsInOrder ==
  [][view = "generate"
     => /\ (pc' = "creating" /\ pc # "creating")
             => (pc = "uploading" /\ Len(fileInfos') = Len(Files)
                 /\ Len(fileIds') = Len(Files))
        /\ (sessionId' # sessionId)
             => (pc = "creating" /\ Len(fileInfos) = Len(Files))
        /\ (requests' # requests /\ turnKind' = "init")
             => /\ sessionId' # Undefined
                /\ initialPrompt # ""
                /\ requests'[Len(requests')].session_id = sessionId'
                /\ requests'[Len(requests')].message = initialPrompt
        /\ InitFailed
             => (requests = << >> /\ requests' = << >> /\ GenerateSendRejected
                 /\ sessionId' = Undefined)]_vars

\* createSession failed after the upload: the view holds tokens, no session
\* id, and has rejected a follow-up turn
C36_Witness ==
  /\ InitFailed
  /\ Len(fileIds) > 0
  /\ ~loading
  /\ lastOp = "handleSend:rejected"
  /\ requests = << >>

\* the initial turn was started after createSession resolved
C36_WitnessInitialTurn ==
  /\ view = "generate"
  /\ lastOp = "createSession"
  /\ sessionId = "s2"
  /\ Len(requests) = 1
  /\ requests[1].session_id = "s2"


(***************************************************************************)
(* Property of the search of the history page (checked under SpecHistory). *)
(***************************************************************************)
\* no timeout is pending and no getSessions call is awaiting its response
SearchQuiescent ==
  /\ view = "history"
  /\ searchTimeoutRef = << >>
  /\ sessionsInFlight = << >>

\* C37: once the search text has stopped changing (the debounce timeout has
\* fired) and every list request has completed, none having failed, the
\* list shown is the result for the latest search text.
C37_ListShowsLatestSearch ==
  (SearchQuiescent /\ consoleErrors = 0)
  => sessions = SessionsMatching(searchQuery)

(***************************************************************************)
(* Property of the pending file list of the home page (checked under       *)
(* SpecHome).                                                              *)
(***************************************************************************)
\* the place of file f in the list fs
PlaceOf(fs, f) == CHOOSE i \in 1..Len(fs) : fs[i] = f

InList(fs, f) == \E i \in 1..Len(fs) : fs[i] = f

\* C38: the pending file list never holds two files of the same name, and
\* its files keep their order: a call leaves the files that stay in the
\* order they had and puts the files it adds after them.
C38_PendingFilesDistinctAndOrdered ==
  [][/\ \A i, j \in 1..Len(files') : files'[i].name = files'[j].name => i = j
     /\ \A i, j \in 1..Len(files) :
          (i < j /\ InList(files', files[i]) /\ InList(files', files[j]))
          => PlaceOf(files', files[i]) < PlaceOf(files', files[j])
     /\ \A i, j \in 1..Len(files') :
          (InList(files, files'[i]) /\ ~InList(files, files'[j])) => i < j]_vars

=============================================================================
